---- MODULE Spec2Model ----
(***************************************************************************)
(* Model of the hybrid retrieval core of AstraMind: the BM25 keyword index *)
(* (bm25.py), the hybrid merger (hybrid_search.py), the vector-search      *)
(* wrapper (vector_db.py) and the reranker (rerank.py, llm.py), with the   *)
(* upload and /ask endpoints (app.py) and the answer cache (cache.py).     *)
(*                                                                         *)
(* Conventions                                                             *)
(*  - a Python str is a sequence of one-character strings, so that strip,  *)
(*    lower, split, the regular expressions and the substring test are     *)
(*    computed and not assumed;                                            *)
(*  - a Python float is an exact fraction [n |-> Int, d |-> Nat \ {0}] in  *)
(*    lowest terms; the blend weight alpha is a fraction with denominator  *)
(*    AlphaDen;                                                            *)
(*  - a function that may raise returns [exc |-> BOOLEAN, val |-> ...];    *)
(*  - rank_bm25 is not part of the repository: BM25Okapi(corpus) is        *)
(*    modelled by the corpus it was built over, its constructor raises     *)
(*    ZeroDivisionError when the corpus has no document or no token at all *)
(*    (avgdl = num_doc / corpus_size, average_idf = idf_sum / len(idf)),   *)
(*    and get_scores may return any score vector of the corpus' length.    *)
(***************************************************************************)
EXTENDS Integers, Sequences, FiniteSets, TLC

VARIABLES
    documents,        \* BM25Retriever.documents
    tokenized_docs,   \* BM25Retriever.tokenized_docs
    bm25,             \* BM25Retriever.bm25 (None or a BM25Okapi)
    file,             \* the pickle file at storage_path
    sinceReset,       \* history of this index object: "no", or "reset" once reset() returned, or
                      \* "reset_add" once an add_documents without a non-blank document followed;
                      \* back to "no" on an add_documents that carries a non-blank document
    op,               \* the call in progress or last returned ("idle" between calls)
    args,             \* its arguments and the collaborators' behaviour during it
    ret,              \* its return value and the values it computed on the way
    raised,           \* whether it raised into its caller
    writer,           \* the thread that runs add_documents or reset line by line
    reader,           \* the thread that runs retrieve line by line
    cache,            \* the Redis answer cache of cache.py
    namespace         \* the chunk texts stored in the vector namespace

vars == <<documents, tokenized_docs, bm25, file, sinceReset, op, args, ret, raised,
          writer, reader, cache, namespace>>

(***************************************************************************)
(* Bounds of the model.                                                    *)
(***************************************************************************)
MaxDocs == 3

MaxBatch == 2

MaxTopK == 2

MaxScore == 1

MaxResults == 3

(***************************************************************************)
(* Sequences.                                                              *)
(***************************************************************************)
Range(s) == {s[i] : i \in 1..Len(s)}

Min2(a, b) == IF a <= b THEN a ELSE b

Max2(a, b) == IF a >= b THEN a ELSE b

\* Python's seq[:k]: the first k elements, or all but the last -k when k < 0.
PySlice(s, k) ==
    IF k >= 0 THEN SubSeq(s, 1, Min2(k, Len(s)))
    ELSE SubSeq(s, 1, Max2(Len(s) + k, 0))

SeqsUpTo(S, n) == UNION {[1..m -> S] : m \in 0..n}

\* Op applied to the value of e, which is computed once
WithValue(e, Op(_)) == CHOOSE r \in {Op(v) : v \in {e}} : TRUE

\* the elements of a finite set of integers, in increasing order
Ascending(I) ==
    [k \in 1..Cardinality(I) |-> CHOOSE i \in I : Cardinality({j \in I : j < i}) = k - 1]

\* the least element of a non-empty set of integers
Least(I) == CHOOSE i \in I : \A j \in I : i <= j

Greatest(I) == CHOOSE i \in I : \A j \in I : j <= i

(***************************************************************************)
(* Characters and strings.                                                 *)
(***************************************************************************)
LowerLetters ==
    {"a","b","c","d","e","f","g","h","i","j","k","l","m",
     "n","o","p","q","r","s","t","u","v","w","x","y","z"}

UpperToLower ==
    [A |-> "a", B |-> "b", C |-> "c", D |-> "d", E |-> "e", F |-> "f",
     G |-> "g", H |-> "h", I |-> "i", J |-> "j", K |-> "k", L |-> "l",
     M |-> "m", N |-> "n", O |-> "o", P |-> "p", Q |-> "q", R |-> "r",
     S |-> "s", T |-> "t", U |-> "u", V |-> "v", W |-> "w", X |-> "x",
     Y |-> "y", Z |-> "z"]

UpperLetters == DOMAIN UpperToLower

Digits == {"0","1","2","3","4","5","6","7","8","9"}

WhiteSpace == {" ", "\n", "\t"}

IsAlnum(c) == c \in LowerLetters \cup UpperLetters \cup Digits

LowerChar(c) == IF c \in UpperLetters THEN UpperToLower[c] ELSE c

\* str.lower()
Lower(s) == [i \in 1..Len(s) |-> LowerChar(s[i])]

RECURSIVE LStrip(_)
LStrip(s) ==
    IF s = <<>> THEN <<>>
    ELSE IF Head(s) \in WhiteSpace THEN LStrip(Tail(s)) ELSE s

RECURSIVE RStrip(_)
RStrip(s) ==
    IF s = <<>> THEN <<>>
    ELSE IF s[Len(s)] \in WhiteSpace THEN RStrip(SubSeq(s, 1, Len(s) - 1)) ELSE s

\* str.strip()
Strip(s) == RStrip(LStrip(s))

\* re.sub(r"[^a-zA-Z0-9\s]", " ", text)
SubNonAlnum(s) ==
    [i \in 1..Len(s) |-> IF IsAlnum(s[i]) \/ s[i] \in WhiteSpace THEN s[i] ELSE " "]

\* re.sub(r"\s+", " ", text)
RECURSIVE CollapseSpace(_)
CollapseSpace(s) ==
    IF s = <<>> THEN <<>>
    ELSE IF Head(s) \in WhiteSpace
         THEN <<" ">> \o CollapseSpace(LStrip(Tail(s)))
         ELSE <<Head(s)>> \o CollapseSpace(Tail(s))

\* str.split(): the maximal runs of non-whitespace characters, in order.
RECURSIVE SplitFrom(_, _)
SplitFrom(s, cur) ==
    IF s = <<>> THEN (IF cur = <<>> THEN <<>> ELSE <<cur>>)
    ELSE IF Head(s) \in WhiteSpace
         THEN (IF cur = <<>> THEN <<>> ELSE <<cur>>) \o SplitFrom(Tail(s), <<>>)
         ELSE SplitFrom(Tail(s), Append(cur, Head(s)))

Split(s) == SplitFrom(s, <<>>)

\* `sub in s` for two strings
IsSubstring(sub, s) ==
    \E i \in 0..(Len(s) - Len(sub)) : SubSeq(s, i + 1, i + Len(sub)) = sub

\* a str is truthy after strip() iff it holds a non-whitespace character
IsBlank(s) == Strip(s) = <<>>

(***************************************************************************)
(* The strings the model draws documents and queries from.                 *)
(***************************************************************************)
T_empty == <<>>

T_space == <<" ">>

T_a == <<"a">>

T_A == <<"A">>

T_bang == <<"!">>

T_aXb == <<"a", "!", "B">>

T_who == <<"W", "h", "o">>

T_find == <<"f", "i", "n", "d">>

Texts == {T_empty, T_space, T_a, T_A, T_bang, T_aXb}

Queries == {T_empty, T_a, T_bang, T_aXb}

TopKs == 0..MaxTopK

ScoreVals == (0 - 1)..MaxScore

(***************************************************************************)
(* bm25.py: BM25Retriever                                                  *)
(***************************************************************************)
\* _clean_text
clean_text(text) == CollapseSpace(Lower(Strip(SubNonAlnum(text))))

\* _tokenize
tokenize(text) == Split(clean_text(text))

NoBM25 == [built |-> FALSE, corpus |-> <<>>]

NoFile == [exists |-> FALSE, readable |-> FALSE, documents |-> <<>>, tokenized_docs |-> <<>>]

\* rank_bm25.BM25Okapi(corpus): see the conventions above.
BM25Okapi(corpus) ==
    IF corpus = <<>> \/ \A i \in 1..Len(corpus) : corpus[i] = <<>>
    THEN [exc |-> TRUE, val |-> NoBM25]
    ELSE [exc |-> FALSE, val |-> [built |-> TRUE, corpus |-> corpus]]

\* The index object and its backing file, as one value.
Index == [documents |-> documents, tokenized_docs |-> tokenized_docs, bm25 |-> bm25, file |-> file]

\* _save whose failure also drops the corpus held in memory
save_dropping_corpus(st, io) ==
    IF io = "ok"
    THEN [st EXCEPT !.file = [exists |-> TRUE, readable |-> TRUE,
                              documents |-> st.documents,
                              tokenized_docs |-> st.tokenized_docs]]
    ELSE [st EXCEPT !.documents = <<>>, !.tokenized_docs = <<>>, !.bm25 = NoBM25]

\* _save: pickle.dump of documents and tokenized_docs; every error is swallowed.
\* io = "ok", "open_fails" (the file is left as it was) or "dump_fails" (the
\* file was truncated by open(..., "wb") and holds no readable pickle).
save(st, io) ==
    CASE io = "ok" ->
           [st EXCEPT !.file = [exists |-> TRUE, readable |-> TRUE,
                                documents |-> st.documents,
                                tokenized_docs |-> st.tokenized_docs]]
      [] io = "open_fails" -> st
      [] OTHER ->
           [st EXCEPT !.file = [exists |-> TRUE, readable |-> FALSE,
                                documents |-> <<>>, tokenized_docs |-> <<>>]]

\* the list comprehension of add_documents
new_docs_of(docs, have) ==
    SelectSeq(docs, LAMBDA d : ~IsBlank(d) /\ d \notin Range(have))

\* tokenization that skips _clean_text
tokenize_all_uncleaned(ds) == [i \in 1..Len(ds) |-> Split(ds[i])]

\* [self._tokenize(doc) for doc in new_docs]
tokenize_all(ds) == [i \in 1..Len(ds) |-> tokenize(ds[i])]

\* add_documents that saves before it looks at docs
add_documents_saves_first(st, docs, io) ==
    LET saved == save(st, io)
        new_docs == new_docs_of(docs, st.documents)
        ext == [saved EXCEPT !.documents = st.documents \o new_docs,
                             !.tokenized_docs = st.tokenized_docs \o tokenize_all(new_docs)]
        b == BM25Okapi(ext.tokenized_docs)
    IN IF docs = <<>> \/ new_docs = <<>> THEN [exc |-> FALSE, val |-> saved]
       ELSE IF b.exc THEN [exc |-> TRUE, val |-> ext]
       ELSE [exc |-> FALSE, val |-> save([ext EXCEPT !.bm25 = b.val], io)]

\* add_documents(docs): [exc, val] with val the index afterwards.
add_documents(st, docs, io) ==
    IF docs = <<>> THEN [exc |-> FALSE, val |-> st]
    ELSE LET new_docs == new_docs_of(docs, st.documents) IN
         IF new_docs = <<>> THEN [exc |-> FALSE, val |-> st]
         ELSE LET ext == [st EXCEPT !.documents = st.documents \o new_docs,
                                    !.tokenized_docs = st.tokenized_docs \o tokenize_all(new_docs)]
                  b == BM25Okapi(ext.tokenized_docs)
              IN IF b.exc THEN [exc |-> TRUE, val |-> ext]
                 ELSE [exc |-> FALSE, val |-> save([ext EXCEPT !.bm25 = b.val], io)]

\* reset() that removes the file and forgets to clear the corpus
reset_keeps_corpus(st, removeOk) ==
    [st EXCEPT !.file = IF st.file.exists /\ removeOk THEN NoFile ELSE st.file]

\* reset(): removeOk is the outcome of os.remove when the file exists.
reset(st, removeOk) ==
    [documents |-> <<>>, tokenized_docs |-> <<>>, bm25 |-> NoBM25,
     file |-> IF st.file.exists /\ removeOk THEN NoFile ELSE st.file]

\* __init__ followed by _load on the file f.
load(f) ==
    LET empty == [documents |-> <<>>, tokenized_docs |-> <<>>, bm25 |-> NoBM25, file |-> f] IN
    IF ~f.exists THEN empty
    ELSE IF ~f.readable THEN empty
    ELSE LET got == [empty EXCEPT !.documents = f.documents,
                                  !.tokenized_docs = f.tokenized_docs]
         IN IF got.documents = <<>> THEN got
            ELSE LET b == BM25Okapi(got.tokenized_docs) IN
                 IF b.exc THEN got ELSE [got EXCEPT !.bm25 = b.val]

\* zip(self.documents, scores)
Zip(ds, scores) ==
    [i \in 1..Min2(Len(ds), Len(scores)) |-> [text |-> ds[i], score |-> scores[i]]]

\* sorted(xs, key=score, reverse=True) on integer scores: insertion keeps the
\* input order of elements with equal keys, as Python's sort does.
RECURSIVE InsertDesc(_, _)
InsertDesc(sorted, x) ==
    IF sorted = <<>> THEN <<x>>
    ELSE IF Head(sorted).score >= x.score
         THEN <<Head(sorted)>> \o InsertDesc(Tail(sorted), x)
         ELSE <<x>> \o sorted

RECURSIVE SortedDesc(_)
SortedDesc(xs) ==
    IF xs = <<>> THEN <<>>
    ELSE InsertDesc(SortedDesc(SubSeq(xs, 1, Len(xs) - 1)), xs[Len(xs)])

\* sorted() with an unstable order: a later element overtakes its equals
RECURSIVE InsertDescUnstable(_, _)
InsertDescUnstable(sorted, x) ==
    IF sorted = <<>> THEN <<x>>
    ELSE IF Head(sorted).score > x.score
         THEN <<Head(sorted)>> \o InsertDescUnstable(Tail(sorted), x)
         ELSE <<x>> \o sorted

RECURSIVE SortedDescUnstable(_)
SortedDescUnstable(xs) ==
    IF xs = <<>> THEN <<>>
    ELSE InsertDescUnstable(SortedDescUnstable(SubSeq(xs, 1, Len(xs) - 1)), xs[Len(xs)])

\* retrieve without the test of the query's tokens
retrieve_any_query(st, query, top_k, scores) ==
    IF ~st.bm25.built \/ st.documents = <<>> THEN <<>>
    ELSE PySlice(SortedDesc(Zip(st.documents, scores)), top_k)

\* retrieve with an unstable sort
retrieve_unstable(st, query, top_k, scores) ==
    IF ~st.bm25.built \/ st.documents = <<>> THEN <<>>
    ELSE IF tokenize(query) = <<>> THEN <<>>
    ELSE PySlice(SortedDescUnstable(Zip(st.documents, scores)), top_k)

\* retrieve(query, top_k); scores is what self.bm25.get_scores returns.
retrieve(st, query, top_k, scores) ==
    IF ~st.bm25.built \/ st.documents = <<>> THEN <<>>
    ELSE IF tokenize(query) = <<>> THEN <<>>
    ELSE PySlice(SortedDesc(Zip(st.documents, scores)), top_k)

\* the score vectors get_scores can return for the index st
ScoreVectors(st) == [1..Len(st.bm25.corpus) -> ScoreVals]

(***************************************************************************)
(* Actions on the keyword index. A call is made when no call is in         *)
(* progress; Return hands the result to the caller and forgets it.         *)
(***************************************************************************)
\* a thread that is in no call
IdleWriter == [pc |-> "idle", new_docs |-> <<>>]

IdleReader ==
    [pc |-> "idle", query |-> <<>>, top_k |-> 0, at_call |-> <<>>, overlapped |-> FALSE,
     scored |-> FALSE, scores |-> <<>>, corpus_seen |-> <<>>, docs_seen |-> <<>>,
     result |-> <<>>, raised |-> FALSE]

IdleThreads == writer = IdleWriter /\ reader = IdleReader

\* redis_client is None: caching is disabled
NoCache == [connected |-> FALSE, entries |-> <<>>]

Install(st) ==
    /\ documents' = st.documents
    /\ tokenized_docs' = st.tokenized_docs
    /\ bm25' = st.bm25
    /\ file' = st.file

IndexUnchanged == UNCHANGED <<documents, tokenized_docs, bm25, file>>

\* what the calls on the index and the search functions never touch
RestUnchanged == UNCHANGED <<writer, reader, cache, namespace>>

\* add_documents(docs) with docs made of the given texts
AddDocumentsOf(texts, ios) ==
    /\ op = "idle"
    /\ RestUnchanged
    /\ \E docs \in SeqsUpTo(texts, MaxBatch), io \in ios :
          LET r == add_documents(Index, docs, io) IN
          /\ Len(r.val.documents) <= MaxDocs
          /\ Install(r.val)
          /\ op' = "add_documents"
          /\ args' = [docs |-> docs, io |-> io, before |-> Index]
          /\ ret' = <<>>
          /\ raised' = r.exc
          /\ sinceReset' = IF sinceReset # "no" /\ \A i \in 1..Len(docs) : IsBlank(docs[i])
                           THEN "reset_add" ELSE "no"

AddDocuments(ios) == AddDocumentsOf(Texts, ios)

Reset(oks) ==
    /\ op = "idle"
    /\ RestUnchanged
    /\ \E removeOk \in oks :
          /\ Install(reset(Index, removeOk))
          /\ op' = "reset"
          /\ args' = [removeOk |-> removeOk, hadFile |-> file.exists]
          /\ ret' = <<>>
          /\ raised' = FALSE
          /\ sinceReset' = "reset"

\* A restart of the process: bm25 = BM25Retriever() builds a new object.
\* args keeps what had happened to the object it replaces.
Load ==
    /\ op = "idle"
    /\ RestUnchanged
    /\ Install(load(file))
    /\ op' = "load"
    /\ args' = [sinceReset |-> sinceReset]
    /\ ret' = <<>>
    /\ raised' = FALSE
    /\ sinceReset' = "no"

\* retrieve(query, top_k) with the given queries and values of top_k
RetrieveOf(queries, topks) ==
    /\ op = "idle"
    /\ \E query \in queries, top_k \in topks, scores \in ScoreVectors(Index) :
          /\ op' = "retrieve"
          /\ args' = [query |-> query, top_k |-> top_k, scores |-> scores]
          /\ ret' = retrieve(Index, query, top_k, scores)
          /\ raised' = FALSE
    /\ IndexUnchanged
    /\ UNCHANGED sinceReset
    /\ RestUnchanged

Retrieve == RetrieveOf(Queries, TopKs)

Return ==
    /\ op # "idle"
    /\ op' = "idle"
    /\ args' = <<>>
    /\ ret' = <<>>
    /\ raised' = FALSE
    /\ IndexUnchanged
    /\ UNCHANGED sinceReset
    /\ RestUnchanged

Init ==
    /\ documents = <<>>
    /\ tokenized_docs = <<>>
    /\ bm25 = NoBM25
    /\ file = NoFile
    /\ sinceReset = "no"
    /\ op = "idle"
    /\ args = <<>>
    /\ ret = <<>>
    /\ raised = FALSE
    /\ IdleThreads
    /\ cache = NoCache
    /\ namespace = <<>>

Next ==
    \/ AddDocuments({"ok"})
    \/ Reset({TRUE})
    \/ Load
    \/ Retrieve
    \/ Return

\* The keyword index with working storage.
Spec == Init /\ [][Next]_vars

(***************************************************************************)
(* The keyword index on storage that may fail and may hold a file the      *)
(* program did not write.                                                  *)
(***************************************************************************)
\* a file that exists and cannot be opened or unpickled, or whose pickle is
\* no dict
UnreadableFile == [exists |-> TRUE, readable |-> FALSE, documents |-> <<>>, tokenized_docs |-> <<>>]

\* a file holding the pickle of data: data.get("documents", []) and
\* data.get("tokenized_docs", []) are its two fields
PickleOf(docs, tokenized) ==
    [exists |-> TRUE, readable |-> TRUE, documents |-> docs, tokenized_docs |-> tokenized]

\* the files found at storage_path when the process starts
SampleFiles ==
    { NoFile,
      UnreadableFile,
      PickleOf(<<>>, <<>>),
      PickleOf(<<T_a>>, <<>>),
      PickleOf(<<T_a, T_bang>>, <<tokenize(T_a), tokenize(T_bang)>>) }

IOTexts == {T_space, T_a, T_bang}

IOQueries == {T_a, T_bang}

SaveOutcomes == {"ok", "open_fails", "dump_fails"}

AddDocumentsIO == AddDocumentsOf(IOTexts, SaveOutcomes)

ResetIO == Reset({TRUE, FALSE})

RetrieveIO == RetrieveOf(IOQueries, {MaxTopK})

\* bm25 = BM25Retriever() has just run on one of the files.
InitIO ==
    /\ \E f \in SampleFiles :
          /\ documents = load(f).documents
          /\ tokenized_docs = load(f).tokenized_docs
          /\ bm25 = load(f).bm25
          /\ file = f
    /\ sinceReset = "no"
    /\ op = "load"
    /\ args = [sinceReset |-> "no"]
    /\ ret = <<>>
    /\ raised = FALSE
    /\ IdleThreads
    /\ cache = NoCache
    /\ namespace = <<>>

NextIO ==
    \/ AddDocumentsIO
    \/ ResetIO
    \/ Load
    \/ RetrieveIO
    \/ Return

\* The keyword index over failing storage.
SpecIO == InitIO /\ [][NextIO]_vars

(***************************************************************************)
(* The keyword index shared by two threads, with no lock as in bm25.py: a  *)
(* writer thread runs add_documents and reset and a reader thread runs     *)
(* retrieve, each one source line at a time (pc names the line about to    *)
(* run). reader.overlapped records that a call of the writer was in        *)
(* progress at some moment of the retrieve in progress: with a lock that   *)
(* admits readers together and writers alone it would stay FALSE. The pc   *)
(* "done" is the instant at which retrieve hands its result over: the      *)
(* writer is scheduled again after it.                                     *)
(***************************************************************************)
ConcTexts == {T_a, T_bang}

ConcQueries == {T_a, T_bang}

\* the score vectors get_scores returns in these runs: all zero, or one
\* document scored MaxScore
ConcScoreVectors(st) ==
    {[i \in 1..Len(st.bm25.corpus) |-> IF i = k THEN MaxScore ELSE 0] : k \in 0..Len(st.bm25.corpus)}

\* the writer moves while a retrieve is in progress
Overlap ==
    IF reader.pc = "idle" THEN reader ELSE [reader EXCEPT !.overlapped = TRUE]

\* add_documents, lines 46-53, of a call that goes on with new_docs (one
\* that returns at once changes nothing)
AddDocumentsCall ==
    /\ writer.pc = "idle"
    /\ reader.pc # "done"
    /\ \E docs \in SeqsUpTo(ConcTexts, MaxBatch) :
          /\ docs # <<>>
          /\ Len(documents) + Len(new_docs_of(docs, documents)) <= MaxDocs
          /\ new_docs_of(docs, documents) # <<>>
          /\ writer' = [pc |-> "l56", new_docs |-> new_docs_of(docs, documents)]
    /\ reader' = Overlap
    /\ IndexUnchanged
    /\ UNCHANGED <<sinceReset, op, args, ret, raised, cache, namespace>>

\* add_documents, lines 56, 57, 60 and 61, one at a time; the exception of
\* line 60 ends the call
AddDocumentsStep ==
    /\ writer.pc \in {"l56", "l57", "l60", "l61"}
    /\ reader.pc # "done"
    /\ CASE writer.pc = "l56" ->
              /\ documents' = documents \o writer.new_docs
              /\ writer' = [writer EXCEPT !.pc = "l57"]
              /\ UNCHANGED <<tokenized_docs, bm25, file>>
         [] writer.pc = "l57" ->
              /\ tokenized_docs' = tokenized_docs \o tokenize_all(writer.new_docs)
              /\ writer' = [writer EXCEPT !.pc = "l60"]
              /\ UNCHANGED <<documents, bm25, file>>
         [] writer.pc = "l60" ->
              /\ bm25' = IF BM25Okapi(tokenized_docs).exc THEN bm25 ELSE BM25Okapi(tokenized_docs).val
              /\ writer' = IF BM25Okapi(tokenized_docs).exc THEN IdleWriter
                           ELSE [writer EXCEPT !.pc = "l61"]
              /\ UNCHANGED <<documents, tokenized_docs, file>>
         [] OTHER ->
              /\ file' = save(Index, "ok").file
              /\ writer' = IdleWriter
              /\ UNCHANGED <<documents, tokenized_docs, bm25>>
    /\ reader' = Overlap
    /\ UNCHANGED <<sinceReset, op, args, ret, raised, cache, namespace>>

\* reset, lines 97, 98, 99 and 101-105, one at a time, line 97 being the
\* first step of a call
ResetStep ==
    /\ writer.pc \in {"idle", "l98", "l99", "l101"}
    /\ reader.pc # "done"
    /\ CASE writer.pc = "idle" ->
              /\ documents' = <<>>
              /\ writer' = [writer EXCEPT !.pc = "l98"]
              /\ UNCHANGED <<tokenized_docs, bm25, file>>
         [] writer.pc = "l98" ->
              /\ tokenized_docs' = <<>>
              /\ writer' = [writer EXCEPT !.pc = "l99"]
              /\ UNCHANGED <<documents, bm25, file>>
         [] writer.pc = "l99" ->
              /\ bm25' = NoBM25
              /\ writer' = [writer EXCEPT !.pc = "l101"]
              /\ UNCHANGED <<documents, tokenized_docs, file>>
         [] OTHER ->
              /\ file' = reset(Index, TRUE).file
              /\ writer' = IdleWriter
              /\ UNCHANGED <<documents, tokenized_docs, bm25>>
    /\ reader' = Overlap
    /\ UNCHANGED <<sinceReset, op, args, ret, raised, cache, namespace>>

\* line 72 testing the documents alone
retrieve_test_documents_only(st) == st.documents = <<>>

\* the test of line 72: TRUE when retrieve returns [] at once
retrieve_test(st) == ~st.bm25.built \/ st.documents = <<>>

\* retrieve(query, top_k) is called
RetrieveCall ==
    /\ reader.pc = "idle"
    /\ \E query \in ConcQueries :
          reader' = [IdleReader EXCEPT !.pc = "l72", !.query = query, !.top_k = MaxTopK,
                                      !.at_call = [documents |-> documents, bm25 |-> bm25],
                                      !.overlapped = writer.pc # "idle"]
    /\ IndexUnchanged
    /\ UNCHANGED <<sinceReset, op, args, ret, raised, writer, cache, namespace>>

\* retrieve, lines 72-79, 81 and 82-85, one at a time; line 81 raises
\* AttributeError when self.bm25 is None
RetrieveStep ==
    /\ reader.pc \in {"l72", "l81", "l82"}
    /\ CASE reader.pc = "l72" ->
              reader' = IF retrieve_test(Index) \/ tokenize(reader.query) = <<>>
                        THEN [reader EXCEPT !.pc = "done"]
                        ELSE [reader EXCEPT !.pc = "l81"]
         [] reader.pc = "l81" ->
              IF ~bm25.built
              THEN reader' = [reader EXCEPT !.pc = "done", !.raised = TRUE]
              ELSE \E scores \in ConcScoreVectors(Index) :
                      reader' = [reader EXCEPT !.pc = "l82", !.scored = TRUE, !.scores = scores,
                                               !.corpus_seen = bm25.corpus]
         [] OTHER ->
              reader' = [reader EXCEPT !.pc = "done", !.docs_seen = documents,
                                       !.result = PySlice(SortedDesc(Zip(documents, reader.scores)),
                                                          reader.top_k)]
    /\ IndexUnchanged
    /\ UNCHANGED <<sinceReset, op, args, ret, raised, writer, cache, namespace>>

\* retrieve has returned or raised; its caller goes on
RetrieveReturn ==
    /\ reader.pc = "done"
    /\ reader' = IdleReader
    /\ IndexUnchanged
    /\ UNCHANGED <<sinceReset, op, args, ret, raised, writer, cache, namespace>>

NextConc ==
    \/ AddDocumentsCall
    \/ AddDocumentsStep
    \/ ResetStep
    \/ RetrieveCall
    \/ RetrieveStep
    \/ RetrieveReturn

\* The keyword index under a writing and a reading thread.
SpecConc == Init /\ [][NextConc]_vars

(***************************************************************************)
(* Floats, as exact fractions in lowest terms.                             *)
(***************************************************************************)
Abs(x) == IF x < 0 THEN 0 - x ELSE x

RECURSIVE Gcd(_, _)
Gcd(a, b) == IF b = 0 THEN a ELSE Gcd(b, a % b)

\* the float n/d, d > 0
F(n, d) ==
    LET g == Gcd(Abs(n), d) IN
    IF n = 0 THEN [n |-> 0, d |-> 1] ELSE [n |-> n \div g, d |-> d \div g]

FInt(i) == [n |-> i, d |-> 1]

FAdd(x, y) == F(x.n * y.d + y.n * x.d, x.d * y.d)

FSub(x, y) == F(x.n * y.d - y.n * x.d, x.d * y.d)

FMul(x, y) == F(x.n * y.n, x.d * y.d)

\* x / y for y > 0
FDiv(x, y) == F(x.n * y.d, x.d * y.n)

FLt(x, y) == x.n * y.d < y.n * x.d

FLe(x, y) == x.n * y.d <= y.n * x.d

\* Python's max(x, y) and min(x, y)
FMax(x, y) == IF FLt(x, y) THEN y ELSE x

FMin(x, y) == IF FLt(y, x) THEN y ELSE x

\* min and max of a non-empty list of floats
FMinOf(xs) == CHOOSE x \in Range(xs) : \A y \in Range(xs) : FLe(x, y)

FMaxOf(xs) == CHOOSE x \in Range(xs) : \A y \in Range(xs) : FLe(y, x)

\* sorted(xs, key=..., reverse=True) on entries [key |-> float, item |-> x]:
\* Python's sort is stable, so an entry is preceded by the entries of greater
\* key and by the earlier entries of equal key.
FSortedDesc(xs) ==
    LET before(i) == {j \in 1..Len(xs) :
                        \/ FLt(xs[i].key, xs[j].key)
                        \/ ~FLt(xs[j].key, xs[i].key) /\ j < i}
    IN [p \in 1..Len(xs) |-> xs[CHOOSE i \in 1..Len(xs) : Cardinality(before(i)) = p - 1]]

(***************************************************************************)
(* hybrid_search.py                                                        *)
(*                                                                         *)
(* A result dict is [isdict, text, meta_text, meta_content, score,         *)
(* numeric, has_norm, norm_score]: numeric says whether score is an int or *)
(* a float, has_norm whether the key norm_score is present, an absent or   *)
(* empty string is <<>>, and isdict = FALSE stands for a list element that *)
(* is no dict at all.                                                      *)
(***************************************************************************)
Result(text, score) ==
    [isdict |-> TRUE, text |-> text, meta_text |-> <<>>, meta_content |-> <<>>,
     score |-> score, numeric |-> TRUE, has_norm |-> FALSE, norm_score |-> FInt(0)]

WithNorm(r, x) == [r EXCEPT !.has_norm = TRUE, !.norm_score = x]

\* the scaling loop with (max_s - r["score"]) as numerator
ScaleAllInverted(results, min_s, max_s) ==
    [exc |-> \E i \in 1..Len(results) : ~results[i].numeric,
     val |-> [i \in 1..Len(results) |->
                 IF \A k \in 1..i : results[k].numeric
                 THEN WithNorm(results[i], FDiv(FInt(max_s - results[i].score), FInt(max_s - min_s)))
                 ELSE results[i]]]

\* the loop `for r in results: r["norm_score"] = (r["score"] - min_s) / (max_s - min_s)`
\* stops with TypeError/KeyError at the first result whose score is no number;
\* the results before it keep the norm_score already written into them.
ScaleAll(results, min_s, max_s) ==
    LET bad == {i \in 1..Len(results) : ~results[i].numeric}
        stop == IF bad = {} THEN Len(results) + 1 ELSE Least(bad)
    IN [exc |-> bad # {},
        val |-> [i \in 1..Len(results) |->
                    IF i < stop
                    THEN WithNorm(results[i], FDiv(FInt(results[i].score - min_s), FInt(max_s - min_s)))
                    ELSE results[i]]]

\* _normalize_scores without the branch for max_s == min_s
normalize_scores_no_equal_branch(results) ==
    IF results = <<>> THEN [exc |-> FALSE, val |-> results]
    ELSE IF \E i \in 1..Len(results) : ~results[i].isdict THEN [exc |-> TRUE, val |-> results]
    ELSE [exc |-> FALSE, val |-> [i \in 1..Len(results) |-> WithNorm(results[i], FInt(0))]]

\* _normalize_scores(results) of hybrid_search.py
normalize_scores(results) ==
    IF results = <<>> THEN [exc |-> FALSE, val |-> results]
    ELSE IF \E i \in 1..Len(results) : ~results[i].isdict THEN [exc |-> TRUE, val |-> results]
    ELSE LET scores == SelectSeq(results, LAMBDA r : r.numeric) IN
         IF scores = <<>>
         THEN [exc |-> FALSE, val |-> [i \in 1..Len(results) |-> WithNorm(results[i], FInt(0))]]
         ELSE LET min_s == Least({scores[i].score : i \in 1..Len(scores)})
                  max_s == Greatest({scores[i].score : i \in 1..Len(scores)})
              IN IF max_s = min_s
                 THEN [exc |-> FALSE, val |-> [i \in 1..Len(results) |-> WithNorm(results[i], FInt(1))]]
                 ELSE ScaleAll(results, min_s, max_s)

factoid_keywords ==
    { <<"w","h","o">>, <<"w","h","a","t">>, <<"w","h","e","r","e">>, <<"w","h","e","n">>,
      <<"d","e","f","i","n","e">>, <<"n","a","m","e">>, <<"l","i","s","t">>,
      <<"g","i","v","e">>, <<"s","h","o","w">>, <<"f","i","n","d">>,
      <<"m","e","n","t","i","o","n">>, <<"w","h","i","c","h">> }

\* _is_factoid_query without query.lower()
is_factoid_query_case_sensitive(query) == \E k \in factoid_keywords : IsSubstring(k, query)

\* _is_factoid_query
is_factoid_query(query) == \E k \in factoid_keywords : IsSubstring(k, Lower(query))

\* extract_text_from_vector_result
extract_text_from_vector_result(result) ==
    IF result.meta_text # <<>> THEN result.meta_text
    ELSE IF result.meta_content # <<>> THEN result.meta_content
    ELSE result.text

AlphaDen == 10

\* lines 79-82 with the band test inverted
effective_alpha_swapped(query, alpha) ==
    IF is_factoid_query(query) THEN FMax(alpha, F(6, 10))
    ELSE FMax(F(2, 10), FMin(alpha, F(4, 10)))

\* lines 79-82 of hybrid_search: the dynamic alpha
effective_alpha(query, alpha) ==
    IF is_factoid_query(query) THEN FMax(F(2, 10), FMin(alpha, F(4, 10)))
    ELSE FMax(alpha, F(6, 10))

(***************************************************************************)
(* vector_db.py: vector_search. reply is what index.query does:            *)
(* [exc |-> it raised, matches |-> the matches it returned]; a match is a  *)
(* result dict before `text` is filled in.                                 *)
(***************************************************************************)
vector_search(reply) ==
    IF reply.exc THEN <<>>
    ELSE IF \E i \in 1..Len(reply.matches) :
               ~reply.matches[i].isdict \/ ~reply.matches[i].numeric
         THEN <<>>
         ELSE [i \in 1..Len(reply.matches) |->
                  [reply.matches[i] EXCEPT !.text = reply.matches[i].meta_text]]

(***************************************************************************)
(* llm.py and rerank.py                                                    *)
(*                                                                         *)
(* A candidate dict is [text, text_is_str, text_sized, score, has_rerank,  *)
(* rerank_score]: text_is_str = FALSE stands for a text that is no str,    *)
(* text_sized = FALSE for one that len() rejects as well (None, a number;  *)
(* a list is sized), has_rerank says whether the key rerank_score is       *)
(* present.                                                                *)
(*                                                                         *)
(* The reply of the relevance model is [raises, text]: generate_content    *)
(* raised, or returned a text, a sequence of lexemes [kind, index, score,  *)
(* floatable] with kind "open" for "[", "close" for "]", "word" for prose, *)
(* "pair" for a JSON object {"index": index, "score": score} (index 0 is   *)
(* an absent or null index, floatable = FALSE a score float() rejects) and *)
(* "number" for a JSON value that is no object.                            *)
(***************************************************************************)
Candidate(text, score) ==
    [text |-> text, text_is_str |-> TRUE, text_sized |-> TRUE, score |-> score,
     has_rerank |-> FALSE, rerank_score |-> FInt(0)]

WithRerank(d, x) == [d EXCEPT !.has_rerank = TRUE, !.rerank_score = x]

\* score_relevance(query, text) of llm.py
score_relevance(query, text) ==
    LET q == Range(Split(Lower(query)))
        t == Range(Split(Lower(text)))
    IN F(Cardinality(q \cap t), Cardinality(q) + 1)

\* _normalize_scores(scores) of rerank.py
rerank_normalize_scores(scores) ==
    IF scores = <<>> THEN <<>>
    ELSE LET min_s == FMinOf(scores)
             max_s == FMaxOf(scores)
         IN IF max_s = min_s THEN [i \in 1..Len(scores) |-> FInt(1)]
            ELSE [i \in 1..Len(scores) |-> FDiv(FSub(scores[i], min_s), FSub(max_s, min_s))]

\* _lexical_rerank storing its score under "score" as well
lexical_rerank_overwriting_score(query, docs) ==
    IF \E i \in 1..Len(docs) : ~docs[i].text_is_str
    THEN [exc |-> TRUE, val |-> <<>>, docs |-> docs]
    ELSE [exc |-> FALSE,
          val |-> [i \in 1..Len(docs) |->
                      [WithRerank(docs[i], score_relevance(query, docs[i].text))
                          EXCEPT !.score = score_relevance(query, docs[i].text)]],
          docs |-> docs]

\* _lexical_rerank: score_relevance raises on a text that is no str; the
\* dicts of docs are copied, never written.
lexical_rerank(query, docs) ==
    IF \E i \in 1..Len(docs) : ~docs[i].text_is_str
    THEN [exc |-> TRUE, val |-> <<>>, docs |-> docs]
    ELSE [exc |-> FALSE,
          val |-> [i \in 1..Len(docs) |-> WithRerank(docs[i], score_relevance(query, docs[i].text))],
          docs |-> docs]

Lex(kind) == [kind |-> kind, index |-> 0, score |-> FInt(0), floatable |-> TRUE]

Pair(index, score) == [kind |-> "pair", index |-> index, score |-> score, floatable |-> TRUE]

\* re.search(r"\[.*\]", text, re.DOTALL): from the first "[" to the last "]"
\* after it; "[]" when there is no match.
json_str_of(text) ==
    LET opens == {i \in 1..Len(text) : text[i].kind = "open"}
        first == CHOOSE i \in opens : \A k \in opens : i <= k
        closes == {k \in 1..Len(text) : text[k].kind = "close" /\ k > first}
        last == CHOOSE k \in closes : \A m \in closes : m <= k
    IN IF opens = {} \/ closes = {}
       THEN <<Lex("open"), Lex("close")>>
       ELSE SubSeq(text, first, last)

\* json.loads(json_str): exc is JSONDecodeError
json_loads(js) ==
    IF /\ Len(js) >= 2
       /\ js[1].kind = "open"
       /\ js[Len(js)].kind = "close"
       /\ \A i \in 2..(Len(js) - 1) : js[i].kind \in {"pair", "number"}
    THEN [exc |-> FALSE, val |-> SubSeq(js, 2, Len(js) - 1)]
    ELSE [exc |-> TRUE, val |-> <<>>]

\* the loop of lines 108-112 indexing docs[idx] in place of docs[idx - 1]
MapScores_zero_based(parsed, docs) ==
    LET bad == {i \in 1..Len(parsed) : parsed[i].kind # "pair" \/ ~parsed[i].floatable}
        stop == IF bad = {} THEN Len(parsed) + 1 ELSE Least(bad)
        hits(k) == {i \in 1..(stop - 1) : parsed[i].index # 0 /\ parsed[i].index = k - 1}
    IN [exc |-> bad # {},
        docs |-> [k \in 1..Len(docs) |->
                     IF hits(k) = {} THEN docs[k]
                     ELSE WithRerank(docs[k], parsed[Greatest(hits(k))].score)]]

\* the loop "Map scores back to docs": stops with an exception at an item
\* that is no dict or whose score float() rejects; docs keeps what was
\* written into it before, the last write to a dict winning.
MapScores(parsed, docs) ==
    LET bad == {i \in 1..Len(parsed) : parsed[i].kind # "pair" \/ ~parsed[i].floatable}
        stop == IF bad = {} THEN Len(parsed) + 1 ELSE Least(bad)
        hits(k) == {i \in 1..(stop - 1) : parsed[i].index # 0 /\ parsed[i].index = k}
    IN [exc |-> bad # {},
        docs |-> [k \in 1..Len(docs) |->
                     IF hits(k) = {} THEN docs[k]
                     ELSE WithRerank(docs[k], parsed[Greatest(hits(k))].score)]]

\* the loop "Fill missing scores"
FillMissing(docs) ==
    [i \in 1..Len(docs) |-> IF docs[i].has_rerank THEN docs[i] ELSE WithRerank(docs[i], FInt(0))]

\* what _semantic_rerank does with the parsed list
ApplyParsed(query, docs, parsed) ==
    WithValue(MapScores(parsed, docs),
              LAMBDA m : IF m.exc THEN lexical_rerank(query, m.docs)
                         ELSE WithValue(FillMissing(m.docs),
                                        LAMBDA filled : [exc |-> FALSE, val |-> filled, docs |-> filled]))

\* _semantic_rerank whose handlers return docs as they are, unscored
semantic_rerank_no_fallback(query, docs, reply) ==
    IF docs = <<>> THEN [exc |-> FALSE, val |-> <<>>, docs |-> docs]
    ELSE IF (\E i \in 1..Len(docs) : ~docs[i].text_sized) \/ reply.raises
         THEN [exc |-> TRUE, val |-> <<>>, docs |-> docs]
    ELSE WithValue(json_loads(json_str_of(reply.text)),
                   LAMBDA parsed : IF parsed.exc THEN [exc |-> TRUE, val |-> <<>>, docs |-> docs]
                                   ELSE ApplyParsed(query, docs, parsed.val))

\* _semantic_rerank(query, docs): val is what it returns, docs the dicts of
\* its argument afterwards (they are written in place), exc an exception
\* that left it, which only its own fallback can raise. Building the
\* snippets raises on a text len() rejects, model.generate_content may raise.
semantic_rerank(query, docs, reply) ==
    IF docs = <<>> THEN [exc |-> FALSE, val |-> <<>>, docs |-> docs]
    ELSE IF (\E i \in 1..Len(docs) : ~docs[i].text_sized) \/ reply.raises
         THEN lexical_rerank(query, docs)
    ELSE WithValue(json_loads(json_str_of(reply.text)),
                   LAMBDA parsed : IF parsed.exc THEN lexical_rerank(query, docs)
                                   ELSE ApplyParsed(query, docs, parsed.val))

\* lines 148-156 with the truncation done before the normalization
TrimAndSort(reranked, top_n) ==
    WithValue(FSortedDesc([i \in 1..Len(reranked) |->
                              [key |-> reranked[i].rerank_score, item |-> reranked[i]]]),
              LAMBDA reranked_sorted :
                 WithValue(PySlice([i \in 1..Len(reranked_sorted) |-> reranked_sorted[i].item], top_n),
                           LAMBDA kept :
                              WithValue(rerank_normalize_scores([i \in 1..Len(kept) |-> kept[i].rerank_score]),
                                        LAMBDA normalized :
                                           [i \in 1..Len(kept) |-> WithRerank(kept[i], normalized[i])])))

\* lines 148-156: normalize, sort, trim
SortAndTrim(reranked, top_n) ==
    WithValue(rerank_normalize_scores([i \in 1..Len(reranked) |-> reranked[i].rerank_score]),
              LAMBDA normalized :
                 WithValue(FSortedDesc([i \in 1..Len(reranked) |->
                                           [key |-> normalized[i],
                                            item |-> WithRerank(reranked[i], normalized[i])]]),
                           LAMBDA reranked_sorted :
                              PySlice([i \in 1..Len(reranked_sorted) |-> reranked_sorted[i].item], top_n)))

\* rerank_results(query, retrieved_chunks, top_n); rr is [semantic |->
\* USE_SEMANTIC_RERANKER, reply |-> the model's reply]. path names the way
\* taken: "empty", "ranked" or "handler" (the except clause of line 158,
\* which returns the argument, whose dicts may have been written).
rerank_results(query, retrieved_chunks, top_n, rr) ==
    IF retrieved_chunks = <<>> THEN [exc |-> FALSE, val |-> <<>>, path |-> "empty"]
    ELSE WithValue(IF rr.semantic THEN semantic_rerank(query, retrieved_chunks, rr.reply)
                   ELSE lexical_rerank(query, retrieved_chunks),
                   LAMBDA r : IF r.exc
                              THEN [exc |-> FALSE, val |-> PySlice(r.docs, top_n), path |-> "handler"]
                              ELSE [exc |-> FALSE, val |-> SortAndTrim(r.val, top_n), path |-> "ranked"])

(***************************************************************************)
(* hybrid_search.py: hybrid_search                                         *)
(*                                                                         *)
(* env is what the collaborators do during the call:                       *)
(*   kw    [raises, scores]  bm25.retrieve raises, or get_scores returns   *)
(*                           scores                                        *)
(*   dense [embed, search, matches]                                        *)
(*         embed  "vector", "none" (embed_query returns None), "raises"    *)
(*         search "query_returns"/"query_raises": vector_search of         *)
(*                vector_db.py over an index.query that returns matches or *)
(*                raises; "stub_returns"/"stub_raises": a replacement of   *)
(*                vector_search that returns matches as they are or raises *)
(*   rr    [semantic, reply] the reranker's configuration and model reply  *)
(***************************************************************************)
norm_of(item) == IF item.has_norm THEN item.norm_score ELSE FInt(0)

\* the merge loops adding norm_score without its weight
Additions_unweighted(items, weight, dense) ==
    LET text(i) == IF dense THEN extract_text_from_vector_result(items[i]) ELSE items[i].text
        kept == Ascending({i \in 1..Len(items) : text(i) # <<>>})
    IN [k \in 1..Len(kept) |-> [text |-> text(kept[k]), delta |-> norm_of(items[kept[k]])]]

\* the additions one merge loop makes to combined_scores, in order:
\* lines 114-118 (dense = FALSE, weight 1 - alpha), 120-124 (dense = TRUE,
\* weight alpha); a falsy text adds nothing
Additions(items, weight, dense) ==
    LET text(i) == IF dense THEN extract_text_from_vector_result(items[i]) ELSE items[i].text
        kept == Ascending({i \in 1..Len(items) : text(i) # <<>>})
    IN [k \in 1..Len(kept) |->
           [text |-> text(kept[k]), delta |-> FMul(weight, norm_of(items[kept[k]]))]]

\* 0.0 + d1 + d2 + ... for the additions made under one key
RECURSIVE SumDeltas(_)
SumDeltas(adds) ==
    IF adds = <<>> THEN FInt(0)
    ELSE FAdd(SumDeltas(SubSeq(adds, 1, Len(adds) - 1)), adds[Len(adds)].delta)

\* the dict built by `d[text] = d.get(text, 0.0) + delta` for each addition,
\* as the list of its items in insertion order
Accumulated(adds) ==
    LET firsts == Ascending({i \in 1..Len(adds) : \A j \in 1..(i - 1) : adds[j].text # adds[i].text})
    IN [k \in 1..Len(firsts) |->
           [text |-> adds[firsts[k]].text,
            score |-> SumDeltas(SelectSeq(adds, LAMBDA a : a.text = adds[firsts[k]].text))]]

\* lines 89-94: bm25_results after the try statement
sparse_branch(st, query, top_k, kw) ==
    IF kw.raises THEN <<>>
    ELSE WithValue(retrieve(st, query, top_k, kw.scores),
                   LAMBDA found :
                      normalize_scores([i \in 1..Len(found) |-> Result(found[i].text, found[i].score)]).val)

\* line 103, with vector_search in place or replaced
search_results(dense) ==
    IF dense.search = "stub_returns" THEN dense.matches
    ELSE vector_search([exc |-> dense.search = "query_raises", matches |-> dense.matches])

\* lines 99-108 without the try/except: a failure of the branch fails the call
dense_branch_unguarded(dense) ==
    IF dense.embed # "vector" \/ dense.search = "stub_raises"
    THEN [exc |-> TRUE, val |-> <<>>]
    ELSE [exc |-> FALSE, val |-> WithValue(search_results(dense), LAMBDA v : normalize_scores(v).val)]

\* lines 99-108: val is vector_results after the try statement, exc an
\* exception that left it (none does)
dense_branch(dense) ==
    IF dense.embed = "raises" THEN [exc |-> FALSE, val |-> <<>>]
    ELSE IF dense.embed = "none" THEN [exc |-> FALSE, val |-> <<>>]
    ELSE IF dense.search = "stub_raises" THEN [exc |-> FALSE, val |-> <<>>]
    ELSE [exc |-> FALSE, val |-> WithValue(search_results(dense), LAMBDA v : normalize_scores(v).val)]

\* lines 113-124 with the two weights exchanged
merge_swapped(bm25_results, vector_results, alpha) ==
    [exc |-> \E i \in 1..Len(vector_results) : ~vector_results[i].isdict,
     val |-> WithValue(Additions(bm25_results, alpha, FALSE)
                       \o Additions(vector_results, FSub(FInt(1), alpha), TRUE),
                       LAMBDA adds : Accumulated(adds))]

\* lines 113-124: combined_scores; exc is the AttributeError of .get on a
\* vector result that is no dict
merge(bm25_results, vector_results, alpha) ==
    [exc |-> \E i \in 1..Len(vector_results) : ~vector_results[i].isdict,
     val |-> WithValue(Additions(bm25_results, FSub(FInt(1), alpha), FALSE)
                       \o Additions(vector_results, alpha, TRUE),
                       LAMBDA adds : Accumulated(adds))]

\* lines 133-137 without the sort
rank_and_trim_unsorted(combined, top_k) ==
    PySlice(SelectSeq(combined, LAMBDA e : ~IsBlank(e.text)), top_k)

\* lines 133-137: top_results before reranking
rank_and_trim(combined, top_k) ==
    WithValue(SelectSeq(combined, LAMBDA e : ~IsBlank(e.text)),
              LAMBDA combined_list :
                 WithValue(FSortedDesc([i \in 1..Len(combined_list) |->
                                           [key |-> combined_list[i].score, item |-> combined_list[i]]]),
                           LAMBDA ranked : PySlice([i \in 1..Len(ranked) |-> ranked[i].item], top_k)))

\* the except clause of line 154 that re-raises
FailedRaising(alpha) ==
    [exc |-> TRUE, val |-> <<>>, failed |-> TRUE, alpha |-> alpha, bm25_results |-> <<>>,
     vector_results |-> <<>>, combined_scores |-> <<>>, top_results |-> <<>>, rerank |-> "none"]

\* the except clause of line 154
Failed(alpha) ==
    [exc |-> FALSE, val |-> <<>>, failed |-> TRUE, alpha |-> alpha, bm25_results |-> <<>>,
     vector_results |-> <<>>, combined_scores |-> <<>>, top_results |-> <<>>, rerank |-> "none"]

\* lines 126-152 without the test of lines 126-128
finish_without_test(query, top_k, rr, locals) ==
    WithValue(rank_and_trim(locals.combined_scores, top_k),
              LAMBDA top_results :
                 WithValue(rerank_results(query,
                                          [i \in 1..Len(top_results) |->
                                              Candidate(top_results[i].text, top_results[i].score)],
                                          top_k, rr),
                           LAMBDA r : [locals EXCEPT !.top_results = top_results,
                                                     !.rerank = r.path,
                                                     !.val = r.val]))

\* lines 126-152, from combined_scores on
finish(query, top_k, rr, locals) ==
    IF locals.combined_scores = <<>> THEN locals
    ELSE WithValue(rank_and_trim(locals.combined_scores, top_k),
                   LAMBDA top_results :
                      WithValue(rerank_results(query,
                                               [i \in 1..Len(top_results) |->
                                                   Candidate(top_results[i].text, top_results[i].score)],
                                               top_k, rr),
                                LAMBDA r : [locals EXCEPT !.top_results = top_results,
                                                          !.rerank = r.path,
                                                          !.val = r.val]))

\* hybrid_search(query, alpha, top_k): exc says whether it raised, val is the
\* list it returned, failed whether the except clause of line 154 ran; the
\* other fields are its local variables when it returned.
hybrid_search(st, query, alpha, top_k, env) ==
    WithValue(effective_alpha(query, alpha), LAMBDA eff :
    WithValue(sparse_branch(st, query, top_k, env.kw), LAMBDA bm25_results :
    WithValue(dense_branch(env.dense), LAMBDA vec :
       IF vec.exc THEN Failed(eff)
       ELSE WithValue(merge(bm25_results, vec.val, eff), LAMBDA m :
               IF m.exc THEN Failed(eff)
               ELSE finish(query, top_k, env.rr,
                           [exc |-> FALSE, val |-> <<>>, failed |-> FALSE, alpha |-> eff,
                            bm25_results |-> bm25_results, vector_results |-> vec.val,
                            combined_scores |-> m.val, top_results |-> <<>>,
                            rerank |-> "none"])))))

(***************************************************************************)
(* The inputs of the search operations.                                    *)
(***************************************************************************)
Match(meta_text, meta_content, text, score) ==
    [isdict |-> TRUE, text |-> text, meta_text |-> meta_text, meta_content |-> meta_content,
     score |-> score, numeric |-> TRUE, has_norm |-> FALSE, norm_score |-> FInt(0)]

NoNumber(m) == [m EXCEPT !.numeric = FALSE]

NotADict == [Match(<<>>, <<>>, <<>>, 0) EXCEPT !.isdict = FALSE]

\* what index.query returns when vector_search of vector_db.py is in place;
\* two vectors of the store may carry the same text
StoreMatches ==
    { <<Match(T_aXb, <<>>, <<>>, 3), Match(T_a, <<>>, <<>>, 1)>>,
      <<Match(<<>>, T_A, <<>>, 2), Match(<<>>, <<>>, <<>>, 0)>>,
      <<Match(T_space, <<>>, <<>>, 1), Match(T_a, <<>>, <<>>, 1)>>,
      <<Match(T_space, <<>>, <<>>, 1)>>,
      <<Match(T_a, <<>>, <<>>, 2), Match(T_a, <<>>, <<>>, 1)>>,
      <<Match(T_a, <<>>, <<>>, 1), Match(T_a, <<>>, <<>>, 1)>>,
      <<Match(T_a, <<>>, <<>>, 2), Match(T_a, <<>>, <<>>, 1), Match(T_A, <<>>, <<>>, 0)>> }

\* what a replacement of vector_search returns, malformed data included
StubMatches ==
    { <<Match(<<>>, <<>>, T_a, 1), Match(<<>>, T_A, T_a, 0)>>,
      <<Match(T_a, <<>>, <<>>, 2), NoNumber(Match(T_A, <<>>, <<>>, 0)), Match(T_aXb, <<>>, <<>>, 0)>>,
      <<Match(T_a, <<>>, <<>>, 1), NotADict>> }

DenseBehaviours ==
    {[embed |-> e, search |-> "stub_raises", matches |-> <<>>] : e \in {"none", "raises", "vector"}}
    \cup {[embed |-> "vector", search |-> "query_raises", matches |-> <<>>]}
    \cup {[embed |-> "vector", search |-> "query_returns", matches |-> ms] : ms \in StoreMatches}
    \cup {[embed |-> "vector", search |-> "stub_returns", matches |-> ms] : ms \in StubMatches}

\* index.query(top_k=top_k) answers with at most top_k matches
DenseFor(top_k) ==
    {d \in DenseBehaviours : d.search = "query_returns" => Len(d.matches) <= top_k}

Reply(text) == [raises |-> FALSE, text |-> text]

\* the replies tried in every search
CommonReplies ==
    { [raises |-> TRUE, text |-> <<>>],
      Reply(<<Lex("word")>>),
      Reply(<<Lex("open"), Lex("word"), Lex("close")>>),
      Reply(<<Lex("word"), Lex("open"), Pair(1, F(2, 10)), Pair(2, F(9, 10)), Lex("close"), Lex("word")>>),
      Reply(<<Lex("open"), Pair(1, F(9, 10)), Lex("number"), Lex("close")>>) }

\* the replies tried on rerank_results alone as well
SampleReplies ==
    CommonReplies \cup
    { Reply(<<Lex("open"), Lex("close")>>),
      Reply(<<Lex("open"), Pair(2, F(5, 10)), Pair(3, F(9, 10)), Pair(0, F(7, 10)), Lex("close")>>),
      Reply(<<Lex("open"), Pair(2, F(9, 10)), [Pair(1, FInt(0)) EXCEPT !.floatable = FALSE], Lex("close")>>),
      Reply(<<Lex("open"), Pair(1, F(3, 10)), Pair(0 - 1, F(8, 10)), Pair(1, F(6, 10)), Lex("close")>>) }

LexicalOnly == [semantic |-> FALSE, reply |-> [raises |-> TRUE, text |-> <<>>]]

RerankBehaviours == {LexicalOnly} \cup {[semantic |-> TRUE, reply |-> r] : r \in SampleReplies}

CommonRerankBehaviours == {LexicalOnly} \cup {[semantic |-> TRUE, reply |-> r] : r \in CommonReplies}

\* a candidate whose text is None
NoStrText == [Candidate(<<>>, FInt(0)) EXCEPT !.text_is_str = FALSE, !.text_sized = FALSE]

\* a candidate whose text is a list of strings
ListText == [Candidate(T_a, F(1, 4)) EXCEPT !.text_is_str = FALSE]

SampleChunks ==
    { <<>>,
      <<Candidate(T_aXb, F(1, 2)), Candidate(T_a, F(1, 4))>>,
      <<Candidate(T_aXb, F(1, 2)), Candidate(T_a, F(1, 4)), Candidate(T_A, FInt(0))>>,
      <<Candidate(T_bang, F(1, 2)), Candidate(T_aXb, F(1, 4))>>,
      <<Candidate(T_aXb, F(1, 2)), Candidate(T_a, F(1, 4)), NoStrText>>,
      <<Candidate(T_aXb, F(1, 2)), ListText>> }

SampleCorpora ==
    { <<>>, <<T_bang>>, <<T_a, T_a>>, <<T_aXb, T_a>> }

SearchQueries == {T_a, T_who}

SearchTopKs == 1..MaxTopK

\* the numerators of the alpha values a caller passes: the ends and the
\* inside of [0, 1], a value below 0 and a value above 1 (the endpoints of
\* app.py take any float)
Alphas == {0 - 5, 0, 3, 5, 7, AlphaDen, AlphaDen + 5}

KwBehaviours(st) ==
    {[raises |-> TRUE, scores |-> <<>>]}
    \cup {[raises |-> FALSE, scores |-> sc] : sc \in ScoreVectors(st)}

(***************************************************************************)
(* Actions of the search operations. The reranker's behaviour is chosen    *)
(* only when there is something to rerank.                                 *)
(***************************************************************************)
HybridSearch ==
    /\ op = "idle"
    /\ \E query \in SearchQueries, alpha \in Alphas, top_k \in SearchTopKs,
          kw \in KwBehaviours(Index) :
          \E dense \in DenseFor(top_k) :
          \E dry \in {hybrid_search(Index, query, F(alpha, AlphaDen), top_k,
                                     [kw |-> kw, dense |-> dense, rr |-> LexicalOnly])} :
          \E rr \in IF dry.top_results = <<>> THEN {LexicalOnly} ELSE CommonRerankBehaviours :
          \E env \in {[kw |-> kw, dense |-> dense, rr |-> rr]} :
          \E r \in {hybrid_search(Index, query, F(alpha, AlphaDen), top_k, env)} :
             /\ op' = "hybrid_search"
             /\ args' = [query |-> query, alpha |-> F(alpha, AlphaDen), top_k |-> top_k, env |-> env]
             /\ ret' = r
             /\ raised' = r.exc
    /\ IndexUnchanged
    /\ UNCHANGED sinceReset
    /\ RestUnchanged

RerankResults ==
    /\ op = "idle"
    /\ \E query \in SearchQueries, chunks \in SampleChunks, top_n \in TopKs, rr \in RerankBehaviours :
          \E r \in {rerank_results(query, chunks, top_n, rr)} :
          /\ op' = "rerank_results"
          /\ args' = [query |-> query, retrieved_chunks |-> chunks, top_n |-> top_n, rr |-> rr]
          /\ ret' = r
          /\ raised' = r.exc
    /\ IndexUnchanged
    /\ UNCHANGED sinceReset
    /\ RestUnchanged

\* the queries handed to the classifier alone
ClassifierQueries ==
    { T_empty, T_a, T_who, T_find, T_aXb,
      <<"w", "h", "o">>, <<"W", "H", "E", "N">>, <<"S", "h", "o", "w", " ", "a">>,
      <<"r", "e", "n", "a", "m", "e", "d">>, <<"w", "h", "i", "c", "h">>,
      <<"w", "h", " ", "o">>, <<"G", "I", "V", "E">>, <<"m", "e", "n", "t", "i", "o", "n">> }

\* _is_factoid_query(query) called by line 79 of hybrid_search.py
IsFactoidQuery ==
    /\ op = "idle"
    /\ \E query \in ClassifierQueries :
          /\ op' = "is_factoid_query"
          /\ args' = [query |-> query, before |-> Index]
          /\ ret' = is_factoid_query(query)
          /\ raised' = FALSE
    /\ IndexUnchanged
    /\ UNCHANGED sinceReset
    /\ RestUnchanged

\* _semantic_rerank(query, docs) called by line 144 of rerank.py
SemanticRerank ==
    /\ op = "idle"
    /\ \E query \in SearchQueries, docs \in SampleChunks, reply \in SampleReplies :
          \E r \in {semantic_rerank(query, docs, reply)} :
          /\ op' = "semantic_rerank"
          /\ args' = [query |-> query, docs |-> docs, reply |-> reply]
          /\ ret' = r
          /\ raised' = r.exc
    /\ IndexUnchanged
    /\ UNCHANGED sinceReset
    /\ RestUnchanged

\* The process has started and the ingestion pipeline has indexed a corpus.
InitSearch ==
    /\ \E c \in SampleCorpora :
          LET st == add_documents([documents |-> <<>>, tokenized_docs |-> <<>>,
                                   bm25 |-> NoBM25, file |-> NoFile], c, "ok").val
          IN /\ documents = st.documents
             /\ tokenized_docs = st.tokenized_docs
             /\ bm25 = st.bm25
             /\ file = st.file
    /\ sinceReset = "no"
    /\ op = "idle"
    /\ args = <<>>
    /\ ret = <<>>
    /\ raised = FALSE
    /\ IdleThreads
    /\ cache = NoCache
    /\ namespace = <<>>

NextSearch ==
    \/ HybridSearch
    \/ RerankResults
    \/ SemanticRerank
    \/ IsFactoidQuery
    \/ Return

\* Queries against an indexed corpus.
SpecSearch == InitSearch /\ [][NextSearch]_vars

(***************************************************************************)
(* The two score normalizers on their own: _normalize_scores of            *)
(* hybrid_search.py on result lists, _normalize_scores of rerank.py on     *)
(* lists of floats.                                                        *)
(***************************************************************************)
SampleTexts == <<T_a, T_A, T_aXb, T_bang>>

\* result lists of up to MaxResults dicts; a score is a number of ScoreVals,
\* or no number (a str, None, or no "score" key)
ResultLists ==
    UNION { { [i \in 1..n |->
                 IF p[2][i] THEN Result(SampleTexts[((i - 1) % 4) + 1], p[1][i])
                 ELSE NoNumber(Result(SampleTexts[((i - 1) % 4) + 1], 0))] :
              p \in {q \in [1..n -> ScoreVals] \X [1..n -> BOOLEAN] :
                        \A i \in 1..n : ~q[2][i] => q[1][i] = 0} } :
            n \in 0..MaxResults }

\* lists of up to MaxResults floats
FloatLists == SeqsUpTo({F(k, 2) : k \in 0..(MaxScore + 1)}, MaxResults)

NormalizeResults ==
    /\ op = "idle"
    /\ \E results \in ResultLists :
          \E r \in {normalize_scores(results)} :
             /\ op' = "normalize_results"
             /\ args' = [results |-> results]
             /\ ret' = r.val
             /\ raised' = r.exc
    /\ IndexUnchanged
    /\ UNCHANGED sinceReset
    /\ RestUnchanged

NormalizeFloats ==
    /\ op = "idle"
    /\ \E scores \in FloatLists :
          /\ op' = "normalize_floats"
          /\ args' = [scores |-> scores]
          /\ ret' = rerank_normalize_scores(scores)
          /\ raised' = FALSE
    /\ IndexUnchanged
    /\ UNCHANGED sinceReset
    /\ RestUnchanged

NextNorm ==
    \/ NormalizeResults
    \/ NormalizeFloats
    \/ Return

\* Calls of the normalizers.
SpecNorm == Init /\ [][NextNorm]_vars

(***************************************************************************)
(* app.py: the upload endpoints and /ask, over the keyword index, the      *)
(* vector namespace and the answer cache of cache.py. A handler runs from  *)
(* start to end without another one in between (they are async functions   *)
(* that never await between their first and last access to these           *)
(* objects). A file is [ocr_raises, lines]: multi_stage_ocr raised, or the  *)
(* lines of the text it returned. up says whether the vector store answers *)
(* during the call. An answer is [kind, question, context_used]: the text   *)
(* generate_answer produces is a function of question and context_used.    *)
(***************************************************************************)
\* reset_namespace: index.delete(delete_all=True), every error swallowed
reset_namespace(ns, up) == IF up THEN <<>> ELSE ns

\* upsert_vectors: one vector per non-blank chunk, carrying its stripped text
upsert_vectors(ns, chunks, up) ==
    IF up THEN ns \o [i \in 1..Len(chunks) |-> Strip(chunks[i])] ELSE ns

\* process_uploaded_file(path, file_type, filename): exc says whether it
\* raised, index and namespace are the two stores afterwards
process_uploaded_file(st, ns, f, up) ==
    LET ns1 == reset_namespace(ns, up)
        st1 == reset(st, TRUE)
        all_chunks == SelectSeq(f.lines, LAMBDA c : ~IsBlank(c))
        added == add_documents(st1, all_chunks, "ok")
    IN IF f.ocr_raises
       THEN [exc |-> TRUE, index |-> st1, namespace |-> ns1, chunks_indexed |-> 0]
       ELSE IF all_chunks = <<>>
       THEN [exc |-> FALSE, index |-> st1, namespace |-> ns1, chunks_indexed |-> 0]
       ELSE IF added.exc
       THEN [exc |-> TRUE, index |-> added.val, namespace |-> ns1, chunks_indexed |-> 0]
       ELSE [exc |-> FALSE, index |-> added.val,
             namespace |-> upsert_vectors(ns1, all_chunks, up),
             chunks_indexed |-> Len(all_chunks)]

\* batch_upload(files), every file of a supported type: results holds, per
\* file, whether it was answered with an error and its chunks_indexed
RECURSIVE batch_upload(_, _, _, _)
batch_upload(st, ns, files, up) ==
    IF files = <<>>
    THEN [index |-> st, namespace |-> ns, results |-> <<>>, total_chunks_indexed |-> 0]
    ELSE LET done == batch_upload(st, ns, SubSeq(files, 1, Len(files) - 1), up)
             r == process_uploaded_file(done.index, done.namespace, files[Len(files)], up)
         IN [index |-> r.index, namespace |-> r.namespace,
             results |-> Append(done.results, [error |-> r.exc, chunks_indexed |-> r.chunks_indexed]),
             total_chunks_indexed |-> done.total_chunks_indexed
                                         + (IF r.exc THEN 0 ELSE r.chunks_indexed)]

\* get_cached_answer(question): hit = FALSE stands for None
get_cached_answer(c, question) ==
    IF c.connected /\ Lower(question) \in DOMAIN c.entries
    THEN [hit |-> TRUE, data |-> c.entries[Lower(question)]]
    ELSE [hit |-> FALSE, data |-> <<>>]

\* cache_answer(question, answer): setex under the lowercased question
cache_answer(c, question, answer) ==
    IF ~c.connected THEN c
    ELSE [c EXCEPT !.entries = [k \in DOMAIN c.entries \cup {Lower(question)} |->
                                   IF k = Lower(question) THEN answer ELSE c.entries[k]]]

\* /ask: the response, whether it came from the cache, and the cache afterwards
ask(st, c, question, alpha, top_k, env) ==
    LET cached == get_cached_answer(c, question) IN
    IF cached.hit THEN [response |-> cached.data, cached |-> TRUE, cache |-> c]
    ELSE WithValue(hybrid_search(st, question, alpha, top_k, env).val,
                   LAMBDA results :
                      IF results = <<>>
                      THEN [response |-> [kind |-> "no_info", question |-> question,
                                          context_used |-> <<>>],
                            cached |-> FALSE, cache |-> c]
                      ELSE LET response == [kind |-> "answer", question |-> question,
                                            context_used |-> [i \in 1..Len(results) |-> results[i].text]]
                           IN [response |-> response, cached |-> FALSE,
                               cache |-> cache_answer(c, question, response)])

File(lines) == [ocr_raises |-> FALSE, lines |-> lines]

UploadFiles ==
    { [ocr_raises |-> TRUE, lines |-> <<>>],
      File(<<>>), File(<<T_a>>), File(<<T_aXb, T_a>>), File(<<T_bang>>), File(<<T_space, T_A>>) }

AskQuestions == {T_a, T_A}

\* /upload_pdf and /upload_docx: the handler catches what process_uploaded_file raises
Upload ==
    /\ op = "idle"
    /\ \E f \in UploadFiles, up \in BOOLEAN :
          \E r \in {process_uploaded_file(Index, namespace, f, up)} :
             /\ Install(r.index)
             /\ namespace' = r.namespace
             /\ op' = "upload"
             /\ args' = [file |-> f, up |-> up]
             /\ ret' = [error |-> r.exc, chunks_indexed |-> r.chunks_indexed]
             /\ raised' = FALSE
             /\ sinceReset' = IF r.index.documents = <<>> THEN "reset" ELSE "no"
    /\ UNCHANGED <<writer, reader, cache>>

\* /batch_upload
BatchUpload ==
    /\ op = "idle"
    /\ \E files \in SeqsUpTo(UploadFiles, MaxBatch), up \in BOOLEAN :
          \E r \in {batch_upload(Index, namespace, files, up)} :
             /\ files # <<>>
             /\ Install(r.index)
             /\ namespace' = r.namespace
             /\ op' = "batch_upload"
             /\ args' = [files |-> files, up |-> up]
             /\ ret' = [results |-> r.results, total_chunks_indexed |-> r.total_chunks_indexed]
             /\ raised' = FALSE
             /\ sinceReset' = IF r.index.documents = <<>> THEN "reset" ELSE "no"
    /\ UNCHANGED <<writer, reader, cache>>

\* /ask; the vector store, when it answers, returns the first top_k vectors
\* of the namespace, the earlier the higher scored
Ask ==
    /\ op = "idle"
    /\ \E question \in AskQuestions, alpha \in {0, AlphaDen}, top_k \in SearchTopKs,
          up \in BOOLEAN, scores \in ConcScoreVectors(Index) :
          \E dense \in {IF up
                        THEN [embed |-> "vector", search |-> "query_returns",
                              matches |-> PySlice([i \in 1..Len(namespace) |->
                                                     Match(namespace[i], <<>>, <<>>, Len(namespace) - i)],
                                                  top_k)]
                        ELSE [embed |-> "vector", search |-> "query_raises", matches |-> <<>>]} :
          \E r \in {ask(Index, cache, question, F(alpha, AlphaDen), top_k,
                         [kw |-> [raises |-> FALSE, scores |-> scores], dense |-> dense,
                          rr |-> LexicalOnly])} :
             /\ cache' = r.cache
             /\ op' = "ask"
             /\ args' = [question |-> question, alpha |-> F(alpha, AlphaDen), top_k |-> top_k]
             /\ ret' = [response |-> r.response, cached |-> r.cached]
             /\ raised' = FALSE
    /\ IndexUnchanged
    /\ UNCHANGED <<sinceReset, writer, reader, namespace>>

\* The process has started on empty stores, with or without a Redis server.
InitApp ==
    /\ documents = <<>>
    /\ tokenized_docs = <<>>
    /\ bm25 = NoBM25
    /\ file = NoFile
    /\ sinceReset = "no"
    /\ op = "idle"
    /\ args = <<>>
    /\ ret = <<>>
    /\ raised = FALSE
    /\ IdleThreads
    /\ cache \in {NoCache, [connected |-> TRUE, entries |-> <<>>]}
    /\ namespace = <<>>

NextApp ==
    \/ Upload
    \/ BatchUpload
    \/ Ask
    \/ Return

\* The endpoints of app.py.
SpecApp == InitApp /\ [][NextApp]_vars

(***************************************************************************)
(* Claims about the keyword index (specification Spec).                    *)
(***************************************************************************)
IsPrefix(s, t) == Len(s) <= Len(t) /\ SubSeq(t, 1, Len(s)) = s

\* the first occurrences of the elements of s, in order
RECURSIVE FirstOccurrences(_)
FirstOccurrences(s) ==
    IF s = <<>> THEN <<>>
    ELSE LET init == SubSeq(s, 1, Len(s) - 1)
             last == s[Len(s)]
         IN IF last \in Range(init) THEN FirstOccurrences(init)
            ELSE Append(FirstOccurrences(init), last)

\* C4: after any sequence of add_documents and reset calls the corpus holds no
\* two equal strings and no blank string, and an add_documents call appends
\* the first occurrences of the non-blank documents it did not hold, in order.
C4_CorpusUnique ==
    /\ \A i, j \in 1..Len(documents) : i # j => documents[i] # documents[j]
    /\ \A i \in 1..Len(documents) : ~IsBlank(documents[i])
    /\ op = "add_documents" =>
         documents = args.before.documents \o
                     FirstOccurrences(SelectSeq(args.docs,
                         LAMBDA d : ~IsBlank(d) /\ d \notin Range(args.before.documents)))

\* C5: tokenized_docs is as long as documents and tokenized_docs[i] is the
\* tokenization of documents[i]; add_documents only appends to both, reset
\* clears both, and a ranking structure that is present was built over exactly
\* the current tokenized_docs.
C5_ParallelSequences ==
    /\ Len(tokenized_docs) = Len(documents)
    /\ \A i \in 1..Len(documents) : tokenized_docs[i] = tokenize(documents[i])
    /\ bm25.built => bm25.corpus = tokenized_docs
    /\ op = "add_documents" =>
         /\ IsPrefix(args.before.documents, documents)
         /\ IsPrefix(args.before.tokenized_docs, tokenized_docs)
    /\ op = "reset" => documents = <<>> /\ tokenized_docs = <<>>

\* C5 witness: an add_documents call on a non-empty index that dropped a
\* duplicate, appended a document and rebuilt the ranking structure.
C5_Witness ==
    /\ op = "add_documents"
    /\ args.before.documents # <<>>
    /\ Len(documents) > Len(args.before.documents)
    /\ \E i \in 1..Len(args.docs) : args.docs[i] \in Range(args.before.documents)
    /\ bm25.built

C10_ResetThenEmpty ==
    /\ op = "reset" =>
         /\ documents = <<>> /\ tokenized_docs = <<>> /\ ~bm25.built
         /\ args.removeOk => ~file.exists
    /\ sinceReset # "no" =>
         \A q \in Queries, k \in TopKs, sc \in ScoreVectors(Index) :
            retrieve(Index, q, k, sc) = <<>>
    /\ (sinceReset # "no" /\ op = "retrieve") => ret = <<>>

\* C10 witness: after reset() and a following add_documents without a
\* non-blank document, a retrieve with a query that has a token and a positive
\* top_k.
C10_Witness ==
    /\ sinceReset = "reset_add"
    /\ op = "retrieve"
    /\ tokenize(args.query) # <<>>
    /\ args.top_k > 0
    /\ ~file.exists


\* C11: an add_documents call whose docs is empty, or holds only blank
\* strings and documents already indexed, leaves documents, tokenized_docs,
\* the ranking structure and the backing file as they were and does not raise.
C11_NoOpAdd ==
    (/\ op = "add_documents"
     /\ \A i \in 1..Len(args.docs) :
           IsBlank(args.docs[i]) \/ args.docs[i] \in Range(args.before.documents))
    => /\ ~raised
       /\ documents = args.before.documents
       /\ tokenized_docs = args.before.tokenized_docs
       /\ bm25 = args.before.bm25
       /\ file = args.before.file

\* C11 witness: a call with a blank string and an indexed document, on an
\* index whose file exists.
C11_Witness ==
    /\ op = "add_documents"
    /\ Len(args.docs) = 2
    /\ IsBlank(args.docs[1])
    /\ args.docs[2] \in Range(args.before.documents)
    /\ args.before.file.exists

\* C12: retrieve returns [] without raising when the index holds no document
\* or the query has no alphanumeric character, whatever top_k is.
C12_EmptyRetrieve ==
    (/\ op = "retrieve"
     /\ \/ documents = <<>>
        \/ \A i \in 1..Len(args.query) : ~IsAlnum(args.query[i]))
    => ~raised /\ ret = <<>>

\* C12 witness: a punctuation-only query with a positive top_k on an index
\* that holds documents and a ranking structure.
C12_Witness ==
    /\ op = "retrieve"
    /\ documents # <<>> /\ bm25.built
    /\ args.query = T_bang
    /\ args.top_k > 0

\* C14: after every add_documents and reset call, with storage I/O
\* succeeding, an index constructed on the same file holds the documents and
\* tokenizations of the index in memory and answers retrieve as it does.
C14_RoundTrip ==
    op \in {"add_documents", "reset"} =>
       LET fresh == load(file) IN
       /\ fresh.documents = documents
       /\ fresh.tokenized_docs = tokenized_docs
       /\ \A q \in Queries, k \in TopKs, sc \in ScoreVectors(Index) :
             retrieve(fresh, q, k, sc) = retrieve(Index, q, k, sc)

\* C13: constructing the index on a missing, unreadable or corrupt file, or
\* on one that holds documents without their tokenizations, does not raise
\* and leaves documents and tokenized_docs empty and no ranking structure.
C13_LoadStartsEmpty ==
    op = "load" =>
       /\ ~raised
       /\ (\/ ~file.exists
           \/ ~file.readable
           \/ Len(file.tokenized_docs) # Len(file.documents))
          => documents = <<>> /\ tokenized_docs = <<>> /\ ~bm25.built

(***************************************************************************)
(* Claims about hybrid_search and rerank_results (specification            *)
(* SpecSearch).                                                            *)
(***************************************************************************)
TextsOf(results) == [i \in 1..Len(results) |-> results[i].text]

\* what the keyword index answers in the call recorded in args
KeywordFound ==
    IF args.env.kw.raises THEN <<>>
    ELSE retrieve(Index, args.query, args.top_k, args.env.kw.scores)

\* the dense branch of the call recorded in args failed: no embedding, or the
\* vector search raised
DenseFailed ==
    \/ args.env.dense.embed \in {"none", "raises"}
    \/ args.env.dense.search \in {"stub_raises", "query_raises"}

\* the texts the dense collaborator answered with, when every answer is a dict
VectorTexts ==
    LET found == search_results(args.env.dense)
    IN {extract_text_from_vector_result(found[i]) : i \in 1..Len(found)}

\* C1: hybrid_search does not raise whatever the keyword index, the
\* embedding, the vector search and the reranker do; it returns a list, and
\* the empty list whenever the failure reached its outer handler.
C1_NeverRaises ==
    op = "hybrid_search" =>
       /\ ~raised
       /\ DOMAIN ret.val = 1..Len(ret.val)
       /\ ret.failed => ret.val = <<>>

\* C1 witness: the keyword index raised and the vector search answered with
\* an item that is no dict, so the outer handler ran.
C1_Witness ==
    /\ op = "hybrid_search"
    /\ args.env.kw.raises
    /\ \E i \in 1..Len(args.env.dense.matches) : ~args.env.dense.matches[i].isdict
    /\ ret.failed

\* C2: a failed dense branch contributes no result, and when the keyword index
\* found something the call does not raise and returns, non-empty, one entry
\* for each text the keyword index found and nothing else; a failed keyword
\* branch contributes no result, and the call returns one entry for each of
\* the first top_k non-blank texts of the vector results and nothing else.
C2_PartialFailure ==
    op = "hybrid_search" =>
       /\ DenseFailed =>
            /\ ~raised /\ ~ret.failed
            /\ ret.vector_results = <<>>
            /\ KeywordFound # <<>> =>
                 /\ ret.val # <<>>
                 /\ Range(TextsOf(ret.val)) = Range(TextsOf(KeywordFound))
                 /\ Len(ret.val) = Cardinality(Range(TextsOf(KeywordFound)))
       /\ (args.env.kw.raises /\ ~DenseFailed /\ ~ret.failed) =>
            /\ ~raised
            /\ ret.bm25_results = <<>>
            /\ Range(TextsOf(ret.val)) \subseteq VectorTexts
            /\ Len(ret.val) = Min2(args.top_k,
                                   Cardinality({t \in VectorTexts : ~IsBlank(t)}))

\* C2 witness: the vector search raised while the keyword index found two
\* documents, and both came back.
C2_Witness ==
    /\ op = "hybrid_search"
    /\ args.env.dense.embed = "vector"
    /\ args.env.dense.search = "stub_raises"
    /\ Len(KeywordFound) = 2
    /\ Len(ret.val) = 2

\* C3: for a requested alpha in [0, 1] the alpha used in the merge lies in
\* [0.2, 0.4] for a factoid query and is at least 0.6 otherwise, and it is the
\* requested alpha exactly when that one already lies in the band.
C3_EffectiveAlpha ==
    op = "hybrid_search" =>
       LET requested == args.alpha
           used == ret.alpha
           InBand(a) == IF is_factoid_query(args.query)
                        THEN FLe(F(2, 10), a) /\ FLe(a, F(4, 10))
                        ELSE FLe(F(6, 10), a)
       IN /\ InBand(used)
          /\ used = requested <=> InBand(requested)

\* C3 witness: a factoid query asked with an alpha above 0.4 was answered with
\* alpha 0.4.
C3_Witness ==
    /\ op = "hybrid_search"
    /\ is_factoid_query(args.query)
    /\ FLt(F(4, 10), args.alpha)
    /\ ret.alpha = F(4, 10)


\* the texts of the lexical ranking of the call recorded in args
LexicalOrder ==
    TextsOf(rerank_results(args.query, args.retrieved_chunks, args.top_n, LexicalOnly).val)

\* the reply holds no list json.loads accepts: no "[" followed by a "]", or
\* text between them that is no JSON
Unparseable(text) ==
    \/ ~\E i, k \in 1..Len(text) : i < k /\ text[i].kind = "open" /\ text[k].kind = "close"
    \/ json_loads(json_str_of(text)).exc

\* C6: with the semantic strategy and a reply that holds no parseable list,
\* with or without square brackets, rerank_results returns the candidates in
\* the order of the lexical ranking of the batch.
C6_MalformedFallsBack ==
    (/\ op = "rerank_results"
     /\ args.rr.semantic
     /\ ~args.rr.reply.raises
     /\ Unparseable(args.rr.reply.text)
     /\ \A i \in 1..Len(args.retrieved_chunks) : args.retrieved_chunks[i].text_is_str)
    => TextsOf(ret.val) = LexicalOrder

\* the semantic strategy of the call recorded in args met an exception: the
\* snippets could not be built, the model raised, its reply did not parse or
\* an item of the parsed list was rejected
SemanticRaised ==
    /\ args.rr.semantic
    /\ args.retrieved_chunks # <<>>
    /\ \/ \E i \in 1..Len(args.retrieved_chunks) : ~args.retrieved_chunks[i].text_sized
       \/ args.rr.reply.raises
       \/ LET parsed == json_loads(json_str_of(args.rr.reply.text))
          IN \/ parsed.exc
             \/ \E i \in 1..Len(parsed.val) :
                   parsed.val[i].kind # "pair" \/ ~parsed.val[i].floatable

RECURSIVE NormSum(_, _, _)
NormSum(items, t, dense) ==
    IF items = <<>> THEN FInt(0)
    ELSE LET last == items[Len(items)]
             text == IF dense THEN extract_text_from_vector_result(last) ELSE last.text
             rest == NormSum(SubSeq(items, 1, Len(items) - 1), t, dense)
         IN IF text = t THEN FAdd(rest, norm_of(last)) ELSE rest

\* positions of the results whose text is t
Holding(items, t, dense) ==
    {i \in 1..Len(items) :
        (IF dense THEN extract_text_from_vector_result(items[i]) ELSE items[i].text) = t}

\* C8 as stated: the merged score of a text is (1-a) times the norm_score of
\* its keyword result plus a times the norm_score of its vector result, a
\* branch that did not find the text contributing nothing.
C8_OneResultPerBranch ==
    (op = "hybrid_search" /\ ~ret.failed) =>
       \A e \in Range(ret.combined_scores) :
          LET K == Holding(ret.bm25_results, e.text, FALSE)
              V == Holding(ret.vector_results, e.text, TRUE)
              kw(k) == FMul(FSub(FInt(1), ret.alpha), norm_of(ret.bm25_results[k]))
              vec(v) == FMul(ret.alpha, norm_of(ret.vector_results[v]))
          IN /\ V = {} => \A k \in K : e.score = kw(k)
             /\ K = {} => \A v \in V : e.score = vec(v)
             /\ \A k \in K, v \in V : e.score = FAdd(kw(k), vec(v))

\* C8, amended: combined_scores has exactly one entry for each non-empty text
\* of a keyword or vector result, and its score is (1-a) times the sum of the
\* norm_score of every keyword result with that text plus a times the sum of
\* the norm_score of every vector result with that text (an absent norm_score
\* counting 0).
C8_WeightedSum ==
    (op = "hybrid_search" /\ ~ret.failed) =>
       LET merged == ret.combined_scores
           texts == ({ret.bm25_results[i].text : i \in 1..Len(ret.bm25_results)}
                     \cup {extract_text_from_vector_result(ret.vector_results[i]) :
                              i \in 1..Len(ret.vector_results)}) \ {<<>>}
       IN /\ {merged[i].text : i \in 1..Len(merged)} = texts
          /\ Len(merged) = Cardinality(texts)
          /\ \A i \in 1..Len(merged) :
                merged[i].score =
                   FAdd(FMul(FSub(FInt(1), ret.alpha),
                             NormSum(ret.bm25_results, merged[i].text, FALSE)),
                        FMul(ret.alpha, NormSum(ret.vector_results, merged[i].text, TRUE)))

\* C8 witness: a text found once by the keyword branch and twice by the
\* vector branch, with a contribution from each branch.
C8_Witness ==
    /\ op = "hybrid_search"
    /\ ~ret.failed
    /\ \E e \in Range(ret.combined_scores) :
          /\ Cardinality(Holding(ret.bm25_results, e.text, FALSE)) = 1
          /\ Cardinality(Holding(ret.vector_results, e.text, TRUE)) = 2
          /\ NormSum(ret.bm25_results, e.text, FALSE) # FInt(0)
          /\ NormSum(ret.vector_results, e.text, TRUE) # FInt(0)
          /\ FLt(ret.alpha, FInt(1))


\* the texts of the results of both branches in the call recorded in ret
BranchTexts ==
    {ret.bm25_results[i].text : i \in 1..Len(ret.bm25_results)}
    \cup {extract_text_from_vector_result(ret.vector_results[i]) : i \in 1..Len(ret.vector_results)}

\* C18 as stated: when the merge yields nothing to rank, both branches empty
\* or every merged text empty or whitespace-only, hybrid_search returns []
\* and rerank_results is not called.
C18_NoRerankOnEmptyMerge ==
    (op = "hybrid_search" /\ ~ret.failed /\ \A t \in BranchTexts : IsBlank(t))
    => ret.val = <<>> /\ ret.rerank = "none"

\* C18, amended: when no branch result has a non-empty text, hybrid_search
\* returns [] and rerank_results is not called; when the non-empty texts are
\* all whitespace-only, rerank_results is called with the empty list, takes
\* its early return, and hybrid_search returns [].
C18_EmptyMerge ==
    (op = "hybrid_search" /\ ~ret.failed) =>
       /\ BranchTexts \subseteq {<<>>} =>
             ret.val = <<>> /\ ret.rerank = "none"
       /\ (~(BranchTexts \subseteq {<<>>}) /\ \A t \in BranchTexts : IsBlank(t)) =>
             ret.val = <<>> /\ ret.rerank = "empty"

\* C18 witness: a call that merged only a whitespace-only text, called
\* rerank_results with the empty list and returned [].
C18_Witness ==
    /\ op = "hybrid_search"
    /\ ~ret.failed
    /\ ret.combined_scores # <<>>
    /\ ret.top_results = <<>>
    /\ ret.rerank = "empty"
    /\ ret.val = <<>>

\* the list handed to rerank_results is sorted, holds distinct non-blank
\* texts of the branches with their merged scores, prefers higher scores,
\* and no empty text was merged
TopResultsWellFormed ==
    LET top == ret.top_results
        merged == ret.combined_scores
    IN /\ \A i, j \in 1..Len(top) : i < j => FLe(top[j].score, top[i].score)
       /\ Len(top) <= args.top_k
       /\ \A i, j \in 1..Len(top) : i # j => top[i].text # top[j].text
       /\ \A i \in 1..Len(top) :
             /\ ~IsBlank(top[i].text)
             /\ top[i].text \in BranchTexts
             /\ \E k \in 1..Len(merged) : merged[k] = top[i]
       /\ \A k \in 1..Len(merged) :
             /\ merged[k].text # <<>>
             /\ (~IsBlank(merged[k].text) /\ \A i \in 1..Len(top) : top[i].text # merged[k].text)
                => \A i \in 1..Len(top) : FLe(merged[k].score, top[i].score)

\* C19 as stated: the list handed to the reranker has exactly
\* min(top_k, number of distinct merged texts) entries.
C19_AllMergedTextsRanked ==
    (op = "hybrid_search" /\ ~ret.failed /\ ret.combined_scores # <<>>) =>
       /\ TopResultsWellFormed
       /\ Len(ret.top_results) = Min2(args.top_k, Len(ret.combined_scores))

\* C19, amended: the list handed to the reranker is in non-increasing
\* merged-score order, has exactly min(top_k, number of distinct merged texts
\* that are not whitespace-only) entries, with pairwise distinct texts that
\* are not whitespace-only, all taken from the branch results; no empty text
\* is merged.
C19_MergedListShape ==
    (op = "hybrid_search" /\ ~ret.failed /\ ret.combined_scores # <<>>) =>
       /\ TopResultsWellFormed
       /\ Len(ret.top_results) =
             Min2(args.top_k, Cardinality({t \in BranchTexts : ~IsBlank(t)}))

\* C19 witness: a whitespace-only text was merged and two other texts with
\* different scores were handed to the reranker.
C19_Witness ==
    /\ op = "hybrid_search"
    /\ ~ret.failed
    /\ \E k \in 1..Len(ret.combined_scores) : ret.combined_scores[k].text = T_space
    /\ Len(ret.top_results) = 2
    /\ ret.top_results[1].score # ret.top_results[2].score

\* the candidates of the call recorded in args as the chosen strategy scored
\* them, before normalization
RawScored ==
    IF args.rr.semantic
    THEN semantic_rerank(args.query, args.retrieved_chunks, args.rr.reply).val
    ELSE lexical_rerank(args.query, args.retrieved_chunks).val

\* C20: rerank_results on an empty list returns []; on a non-empty list with
\* positive top_n and no exception it returns min(top_n, number of
\* candidates) entries, each a candidate with its score min-max normalized
\* over all candidates, in [0,1], in non-increasing rerank_score order, equal
\* scores in input order.
C20_RerankOrder ==
    op = "rerank_results" =>
       /\ args.retrieved_chunks = <<>> => ret.val = <<>>
       /\ (args.retrieved_chunks # <<>> /\ args.top_n > 0 /\ ret.path = "ranked") =>
            LET raw == RawScored
                n == Len(args.retrieved_chunks)
                vals == {raw[i].rerank_score : i \in 1..n}
            IN /\ Len(raw) = n
               /\ Len(ret.val) = Min2(args.top_n, n)
               /\ \E lo \in vals, hi \in vals, p \in [1..Len(ret.val) -> 1..n] :
                     /\ \A x \in vals : FLe(lo, x) /\ FLe(x, hi)
                     /\ \A j \in 1..Len(ret.val) :
                           /\ ret.val[j].text = args.retrieved_chunks[p[j]].text
                           /\ ret.val[j].score = args.retrieved_chunks[p[j]].score
                           /\ ret.val[j].has_rerank
                           /\ IF lo = hi THEN ret.val[j].rerank_score = FInt(1)
                              ELSE FMul(ret.val[j].rerank_score, FSub(hi, lo))
                                   = FSub(raw[p[j]].rerank_score, lo)
                           /\ FLe(FInt(0), ret.val[j].rerank_score)
                           /\ FLe(ret.val[j].rerank_score, FInt(1))
                     /\ \A j, k \in 1..Len(ret.val) :
                           j < k => \/ FLt(ret.val[k].rerank_score, ret.val[j].rerank_score)
                                    \/ /\ ret.val[k].rerank_score = ret.val[j].rerank_score
                                       /\ p[j] < p[k]
                     /\ \A i \in 1..n :
                           (\A j \in 1..Len(ret.val) : p[j] # i) =>
                              \A j \in 1..Len(ret.val) :
                                 FLe(raw[i].rerank_score, raw[p[j]].rerank_score)

\* C20 witness: three candidates, two returned, with equal rerank_score and
\* different texts.
C20_Witness ==
    /\ op = "rerank_results"
    /\ ret.path = "ranked"
    /\ Len(args.retrieved_chunks) = 3
    /\ Len(ret.val) = 2
    /\ ret.val[1].rerank_score = ret.val[2].rerank_score
    /\ ret.val[1].text # ret.val[2].text

(***************************************************************************)
(* Claims about the score normalizers (specification SpecNorm).            *)
(***************************************************************************)
\* every score of the result list recorded in args is a number
AllNumeric == \A i \in 1..Len(args.results) : args.results[i].numeric

\* the numeric scores of the result list recorded in args
NumericScores == {args.results[i].score : i \in {k \in 1..Len(args.results) : args.results[k].numeric}}

\* the floats of the list recorded in args
FloatScores == {args.scores[i] : i \in 1..Len(args.scores)}

\* C15: on a non-empty list of results with numeric scores that are not all
\* equal, every norm_score is (score - min)/(max - min) and lies in [0,1],
\* a maximum gets 1.0 and a minimum 0.0, and the results keep their order,
\* text and score; the normalizer of rerank.py computes the same on floats.
C15_NormalizerRange ==
    /\ (op = "normalize_results" /\ AllNumeric /\ Cardinality(NumericScores) > 1) =>
          \E lo \in NumericScores, hi \in NumericScores :
             /\ \A x \in NumericScores : lo <= x /\ x <= hi
             /\ ~raised
             /\ Len(ret) = Len(args.results)
             /\ \A i \in 1..Len(ret) :
                   /\ ret[i].text = args.results[i].text
                   /\ ret[i].score = args.results[i].score
                   /\ ret[i].has_norm
                   /\ ret[i].norm_score.n * (hi - lo) = (ret[i].score - lo) * ret[i].norm_score.d
                   /\ FLe(FInt(0), ret[i].norm_score) /\ FLe(ret[i].norm_score, FInt(1))
                   /\ ret[i].score = hi => ret[i].norm_score = FInt(1)
                   /\ ret[i].score = lo => ret[i].norm_score = FInt(0)
    /\ (op = "normalize_floats" /\ Cardinality(FloatScores) > 1) =>
          \E lo \in FloatScores, hi \in FloatScores :
             /\ \A x \in FloatScores : FLe(lo, x) /\ FLe(x, hi)
             /\ Len(ret) = Len(args.scores)
             /\ \A i \in 1..Len(ret) :
                   /\ FMul(ret[i], FSub(hi, lo)) = FSub(args.scores[i], lo)
                   /\ FLe(FInt(0), ret[i]) /\ FLe(ret[i], FInt(1))
                   /\ args.scores[i] = hi => ret[i] = FInt(1)
                   /\ args.scores[i] = lo => ret[i] = FInt(0)

\* C15 witness: three results with three different scores, the middle one
\* normalized strictly between 0 and 1.
C15_Witness ==
    /\ op = "normalize_results"
    /\ AllNumeric
    /\ Cardinality(NumericScores) = 3
    /\ \E i \in 1..Len(ret) :
          FLt(FInt(0), ret[i].norm_score) /\ FLt(ret[i].norm_score, FInt(1))

\* C16: on a list of one or more results with equal numeric scores every
\* norm_score is 1.0, and on an empty list the output is empty, without an
\* exception; the normalizer of rerank.py does the same on floats.
C16_NormalizerDegenerate ==
    /\ op = "normalize_results" =>
          /\ (args.results # <<>> /\ AllNumeric /\ Cardinality(NumericScores) = 1) =>
                /\ ~raised
                /\ Len(ret) = Len(args.results)
                /\ \A i \in 1..Len(ret) : ret[i].has_norm /\ ret[i].norm_score = FInt(1)
          /\ args.results = <<>> => ~raised /\ ret = <<>>
    /\ op = "normalize_floats" =>
          /\ (args.scores # <<>> /\ Cardinality(FloatScores) = 1) =>
                /\ Len(ret) = Len(args.scores)
                /\ \A i \in 1..Len(ret) : ret[i] = FInt(1)
          /\ args.scores = <<>> => ret = <<>>

\* C16 witness: three results with the same score.
C16_Witness ==
    /\ op = "normalize_results"
    /\ Len(args.results) = 3
    /\ AllNumeric
    /\ Cardinality(NumericScores) = 1
    /\ ret[3].norm_score = FInt(1)

\* C17: _normalize_scores does not raise on any result list, mixed numeric and
\* non-numeric scores included, and gives every result norm_score 0.0 when
\* no score is a number.
C17_NonNumericTolerated ==
    op = "normalize_results" =>
       /\ ~raised
       /\ (args.results # <<>> /\ NumericScores = {}) =>
             \A i \in 1..Len(ret) : ret[i].has_norm /\ ret[i].norm_score = FInt(0)

(***************************************************************************)
(* Claims about the semantic strategy of the reranker, checked under       *)
(* SpecSearch                                                              *)
(***************************************************************************)
\* the reply is prose around one JSON list whose items are all objects
\* {"index": integer, "score": number}
WellFormedPairs(text) ==
    \E a \in 1..Len(text), b \in 1..Len(text) :
       /\ a < b
       /\ text[a].kind = "open"
       /\ text[b].kind = "close"
       /\ \A i \in 1..Len(text) :
             IF i < a \/ i > b THEN text[i].kind = "word"
             ELSE IF a < i /\ i < b THEN text[i].kind = "pair" /\ text[i].floatable
             ELSE TRUE

\* the items of that list, in order
PairsOf(text) == SelectSeq(text, LAMBDA x : x.kind = "pair")

\* the positions of the pairs that name candidate k
PairsFor(text, k) == {i \in 1..Len(PairsOf(text)) : PairsOf(text)[i].index = k}

SemanticMapped ==
    /\ op = "semantic_rerank"
    /\ args.docs # <<>>
    /\ \A i \in 1..Len(args.docs) : args.docs[i].text_sized
    /\ ~args.reply.raises
    /\ WellFormedPairs(args.reply.text)

\* C21: for a reply that is a well-formed list of {index, score} pairs,
\* _semantic_rerank does not raise and returns the candidates in their
\* order, candidate k carrying as rerank_score the score of the pair whose
\* index is k (of the last such pair when several name k) and 0.0 when no
\* pair names k, everything else about it unchanged; pairs whose index is
\* outside 1..number of candidates change nothing.
C21_SemanticMapping ==
    SemanticMapped =>
       /\ ~raised
       /\ Len(ret.val) = Len(args.docs)
       /\ \A k \in 1..Len(args.docs) :
             ret.val[k] = WithRerank(args.docs[k],
                             IF PairsFor(args.reply.text, k) = {} THEN FInt(0)
                             ELSE PairsOf(args.reply.text)[Greatest(PairsFor(args.reply.text, k))].score)

\* a reply with a pair in range, a pair out of range and a candidate that no
\* pair names
C21_Witness ==
    /\ SemanticMapped
    /\ \E i \in 1..Len(PairsOf(args.reply.text)) :
          PairsOf(args.reply.text)[i].index \in 1..Len(args.docs)
    /\ \E i \in 1..Len(PairsOf(args.reply.text)) :
          PairsOf(args.reply.text)[i].index \notin 0..Len(args.docs)
    /\ \E k \in 1..Len(args.docs) : PairsFor(args.reply.text, k) = {}
    /\ ~raised

(***************************************************************************)
(* Claims about the index shared by threads, checked under SpecConc        *)
(***************************************************************************)
\* what a finished retrieve has seen does not fit one state of the index:
\* the ranking structure was gone at line 81, or the documents of line 82
\* are not the ones the ranking structure of line 81 was built over
SawInconsistency ==
    /\ reader.pc = "done"
    /\ \/ reader.raised
       \/ reader.scored /\ reader.corpus_seen # tokenize_all(reader.docs_seen)

\* C22: a retrieve that no call of add_documents or reset overlaps (what a
\* lock admitting readers together and writers alone enforces) sees one
\* consistent state of the index: it does not raise and returns what
\* retrieve returns on the index as it was at the call. The source has no
\* such lock, and C22_Witness is a retrieve that saw an inconsistent state.
C22_ExclusiveRetrieveConsistent ==
    (reader.pc = "done" /\ ~reader.overlapped) =>
       /\ ~SawInconsistency
       /\ reader.result =
             retrieve(reader.at_call, reader.query, reader.top_k,
                      IF reader.scored THEN reader.scores ELSE <<>>)
       /\ reader.scored => /\ reader.docs_seen = reader.at_call.documents
                           /\ reader.corpus_seen = reader.at_call.bm25.corpus

\* a retrieve that ran while add_documents was between its lines 56 and 61
\* and scored documents the ranking structure does not cover
C22_Witness ==
    /\ SawInconsistency
    /\ reader.overlapped
    /\ ~reader.raised
    /\ writer.pc \in {"l57", "l60"}

\* a retrieve whose ranking structure was removed by reset after line 72
ResetSeenByRetrieve ==
    /\ SawInconsistency
    /\ reader.raised
    /\ writer.pc = "l101"

(***************************************************************************)
(* Claims about failing storage, checked under SpecIO                      *)
(***************************************************************************)
\* the part of an index that lives in memory
InMemory(st) == [documents |-> st.documents, tokenized_docs |-> st.tokenized_docs, bm25 |-> st.bm25]

\* add_documents reached line 61 and _save failed
SaveFailed ==
    /\ op = "add_documents"
    /\ args.io # "ok"
    /\ new_docs_of(args.docs, args.before.documents) # <<>>
    /\ ~BM25Okapi(args.before.tokenized_docs
                  \o tokenize_all(new_docs_of(args.docs, args.before.documents))).exc

\* reset found the backing file and os.remove failed
RemoveFailed == op = "reset" /\ args.hadFile /\ ~args.removeOk

\* C23: when _save fails during add_documents the call does not raise and
\* leaves documents, tokenized_docs and the ranking structure as a call with
\* working storage does, the new documents indexed and scored by retrieve;
\* when os.remove fails during reset the call does not raise and leaves the
\* three empty.
C23_PersistenceFailureSwallowed ==
    /\ SaveFailed =>
          /\ ~raised
          /\ InMemory(Index) = InMemory(add_documents(args.before, args.docs, "ok").val)
          /\ documents = args.before.documents \o new_docs_of(args.docs, args.before.documents)
          /\ bm25.built /\ bm25.corpus = tokenize_all(documents)
          /\ \A sc \in ScoreVectors(Index) :
                TextsOf(retrieve(Index, T_a, Len(documents), sc))
                   \in {p \in [1..Len(documents) -> Range(documents)] :
                           \A d \in Range(documents) :
                              Cardinality({i \in 1..Len(documents) : p[i] = d})
                                 = Cardinality({i \in 1..Len(documents) : documents[i] = d})}
    /\ RemoveFailed =>
          /\ ~raised
          /\ documents = <<>> /\ tokenized_docs = <<>> /\ ~bm25.built

\* an add_documents whose pickle.dump failed after the file was opened
C23_Witness ==
    /\ SaveFailed
    /\ args.io = "dump_fails"
    /\ ~raised
    /\ file.exists /\ ~file.readable
    /\ Len(documents) > Len(args.before.documents)

(***************************************************************************)
(* Claims about the query classifier, checked under SpecSearch             *)
(***************************************************************************)
\* the keyword set the claim names
EightKeywords ==
    { <<"w","h","o">>, <<"w","h","a","t">>, <<"w","h","e","r","e">>, <<"w","h","e","n">>,
      <<"d","e","f","i","n","e">>, <<"n","a","m","e">>, <<"l","i","s","t">>,
      <<"w","h","i","c","h">> }

\* the keywords of lines 44-47 that the claim does not name
FourMoreKeywords ==
    { <<"g","i","v","e">>, <<"s","h","o","w">>, <<"f","i","n","d">>,
      <<"m","e","n","t","i","o","n">> }

ContainsOneOf(keywords, text) == \E k \in keywords : IsSubstring(k, text)

\* C24 as stated: factoid iff the lowercased query contains one of the
\* eight keywords who, what, where, when, define, name, list, which.
C24_EightKeywordClassifier ==
    op = "is_factoid_query" => (ret <=> ContainsOneOf(EightKeywords, Lower(args.query)))

\* C24 amended: factoid iff the lowercased query contains, as a substring,
\* one of the twelve keywords who, what, where, when, define, name, list,
\* give, show, find, mention, which; the answer is a function of the query
\* text alone, the same for every letter case, and the index is left as it
\* was.
C24_TwelveKeywordClassifier ==
    op = "is_factoid_query" =>
       /\ ret <=> ContainsOneOf(EightKeywords \cup FourMoreKeywords, Lower(args.query))
       /\ ret <=> is_factoid_query(Lower(args.query))
       /\ ~raised
       /\ Index = args.before

\* a query classified factoid through a keyword outside the eight, written
\* with capital letters
C24_Witness ==
    /\ op = "is_factoid_query"
    /\ ret
    /\ ~ContainsOneOf(EightKeywords, Lower(args.query))
    /\ args.query # Lower(args.query)

(***************************************************************************)
(* Claims about the range of the merged scores, checked under SpecSearch   *)
(***************************************************************************)
UnitAlpha == FLe(FInt(0), ret.alpha) /\ FLe(ret.alpha, FInt(1))

\* C25 as stated: with an effective alpha in [0,1], every text of the merged
\* map is carried by at most one keyword result and at most one vector
\* result, and every merged score lies in [0,1].
C25_MergedScoreInUnitInterval ==
    (op = "hybrid_search" /\ ~ret.failed /\ UnitAlpha) =>
       \A e \in Range(ret.combined_scores) :
          /\ Cardinality(Holding(ret.bm25_results, e.text, FALSE)) <= 1
          /\ Cardinality(Holding(ret.vector_results, e.text, TRUE)) <= 1
          /\ FLe(FInt(0), e.score) /\ FLe(e.score, FInt(1))

\* C25, amended: with an effective alpha a in [0,1], the merged score of a
\* text carried by k keyword results and v vector results lies between 0
\* and (1-a)*k + a*v; it lies in [0,1] for a text that each branch returned
\* at most once.
C25_MergedScoreBound ==
    (op = "hybrid_search" /\ ~ret.failed /\ UnitAlpha) =>
       \A e \in Range(ret.combined_scores) :
          LET k == Cardinality(Holding(ret.bm25_results, e.text, FALSE))
              v == Cardinality(Holding(ret.vector_results, e.text, TRUE))
          IN /\ FLe(FInt(0), e.score)
             /\ FLe(e.score, FAdd(FMul(FSub(FInt(1), ret.alpha), FInt(k)),
                                  FMul(ret.alpha, FInt(v))))
             /\ (k <= 1 /\ v <= 1) => FLe(e.score, FInt(1))

\* a text the vector branch alone returned, twice, with a merged score
\* above 1
C25_Witness ==
    /\ op = "hybrid_search"
    /\ ~ret.failed
    /\ UnitAlpha
    /\ \E e \in Range(ret.combined_scores) :
          /\ Holding(ret.bm25_results, e.text, FALSE) = {}
          /\ Cardinality(Holding(ret.vector_results, e.text, TRUE)) = 2
          /\ FLt(FInt(1), e.score)

(***************************************************************************)
(* Claims about the blend weights, checked under SpecSearch                *)
(***************************************************************************)
\* C26: whatever alpha the caller passes, the alpha used in the merge lies
\* in [0,1], so that the keyword weight 1 - alpha and the vector weight
\* alpha are both non-negative.
C26_BlendWeightsValid ==
    op = "hybrid_search" =>
       /\ FLe(FInt(0), ret.alpha) /\ FLe(ret.alpha, FInt(1))
       /\ FLe(FInt(0), FSub(FInt(1), ret.alpha))
       /\ \A e \in Range(ret.combined_scores) : FLe(FInt(0), e.score)

(***************************************************************************)
(* Claims about restarts, checked under SpecIO                             *)
(***************************************************************************)
\* C27: an index constructed on the storage path after reset() has returned
\* (and before any document was added again) has an empty corpus, whether
\* os.remove succeeded or failed.
C27_ResetDurable ==
    (op = "load" /\ args.sinceReset # "no") =>
       documents = <<>> /\ tokenized_docs = <<>> /\ ~bm25.built

(***************************************************************************)
(* Claims about what reranking leaves alone, checked under SpecSearch      *)
(***************************************************************************)
\* after is before in some order: the same length, and a one-to-one map of
\* positions that keeps text, the kind of text and the merged score
Reordered(before, after) ==
    /\ Len(after) = Len(before)
    /\ \E p \in [1..Len(after) -> 1..Len(before)] :
          /\ \A i, j \in 1..Len(after) : p[i] = p[j] => i = j
          /\ \A i \in 1..Len(after) :
                /\ after[i].text = before[p[i]].text
                /\ after[i].text_is_str = before[p[i]].text_is_str
                /\ after[i].score = before[p[i]].score

\* C28: the list hybrid_search returns after reranking its top-k list holds
\* the candidates of that list, each once, with text and merged score as
\* they were, and no text twice; so does rerank_results on any list no
\* longer than top_n, on the semantic path, the lexical path and through
\* its exception handler.
C28_RerankOnlyReorders ==
    /\ (op = "hybrid_search" /\ ~ret.failed /\ ret.rerank # "none") =>
          /\ Reordered([i \in 1..Len(ret.top_results) |->
                           Candidate(ret.top_results[i].text, ret.top_results[i].score)],
                       ret.val)
          /\ \A i, j \in 1..Len(ret.val) : ret.val[i].text = ret.val[j].text => i = j
    /\ (op = "rerank_results" /\ Len(args.retrieved_chunks) <= args.top_n) =>
          Reordered(args.retrieved_chunks, ret.val)

\* a search whose reranker moved a candidate
C28_Witness ==
    /\ op = "hybrid_search"
    /\ ~ret.failed
    /\ ret.rerank = "ranked"
    /\ args.env.rr.semantic
    /\ Len(ret.val) >= 2
    /\ TextsOf(ret.val) # TextsOf(ret.top_results)

(***************************************************************************)
(* Claims about the endpoints, checked under SpecApp                       *)
(***************************************************************************)
\* the texts the two stores hold now
CurrentCorpus == Range(documents) \cup Range(namespace)

\* C29: every answer /ask returns was computed over the corpus as it is at
\* the request and with the request's top_k: its context holds only texts
\* that the keyword index or the vector namespace holds now, and at most
\* top_k of them.
C29_NoStaleAnswers ==
    (op = "ask" /\ ret.response.kind = "answer") =>
       /\ Range(ret.response.context_used) \subseteq CurrentCorpus
       /\ Len(ret.response.context_used) <= args.top_k

\* C30: after batch_upload the keyword index holds the chunks (the non-blank
\* lines) of every file that was processed without error, the ones counted
\* in total_chunks_indexed.
C30_BatchIndexesWhatItReports ==
    op = "batch_upload" =>
       \A i \in 1..Len(args.files) :
          ~ret.results[i].error =>
             \A c \in Range(args.files[i].lines) : ~IsBlank(c) => c \in Range(documents)

====
